---- MODULE Spec2Model ----
(***************************************************************************)
(* Verification model of the freelens-ai analysis engine:                  *)
(*   - retryWithBackoff         (services/retry.ts)                        *)
(*   - BoundedCache             (services/bounded-cache.ts)                *)
(*   - analyzeResource / analyzeLogsFn use of the cache                    *)
(*   - discoverRelationships    (services/relationship-discovery.ts)       *)
(*   - mergeAIPatterns / save   (services/pattern-storage.ts)              *)
(*   - getClient / tryRefreshAuth (services/claude-client.ts)              *)
(*   - safeRegex                                                           *)
(*   - findSpecReferences       (services/relationship-discovery.ts)       *)
(*   - LogAnalysisStore         (stores/log-analysis-store.ts)             *)
(*   - AIDrawerStore            (stores/pattern-manager-store.ts)          *)
(* Each component has its own specifications (SpecRetry, SpecCache,        *)
(* SpecDiscover, SpecPatterns, SpecAuth, SpecRegex, ...); the variables of *)
(* the other components stay at their initial value.                       *)
(***************************************************************************)
EXTENDS Integers, Sequences, FiniteSets, TLC

VARIABLES
  \* ---- retryWithBackoff: parameters of the call
  maxRetries,         \* maxRetries argument
  hasSignal,          \* an AbortSignal was passed
  hasOnUnauthorized,  \* an onUnauthorized callback was passed
  \* ---- retryWithBackoff: state of the call
  pc,                 \* position of the async function
  attempt,            \* loop variable
  lastError,          \* lastError local
  signalAborted,      \* signal.aborted
  timer,              \* remaining ms of the pending setTimeout (0: none)
  fnCalls,            \* number of invocations of fn
  unauthCalls,        \* number of invocations of onUnauthorized
  refreshed,          \* value the last onUnauthorized call resolved with
  waits,              \* number of backoff waits begun
  waitedMs,           \* ms spent inside backoff waits
  history,            \* errors fn has rejected with, in order
  result,             \* settled value of the returned promise
  \* ---- BoundedCache instance and its collaborators
  cmap,               \* this.map, in Map (insertion) order
  maxSize,            \* this.maxSize
  ttl,                \* what getTtlMs() returns at this moment
  now,                \* Date.now()
  activeCluster,      \* what getActiveClusterId() returns at this moment
  ret,                \* return value of the cache lookup done by the last step
  \* ---- analyzeResource / analyzeLogsFn calls in flight
  analyses,           \* per call: position, cache key, cluster the data is from
  orchestrator,       \* whose cache this is: "resource" (analyzeResource) or "logs"
  \* ---- discoverRelationships: the object passed in and the cluster around it
  object,             \* shape of the object (see DiscoverObjects)
  \* ---- walkOwnersUp
  ownPc, ownDepth, ownCurrent, ownRefs, ownIdx, owners,
  \* ---- findChildren
  chPc, chBatch, chPending, chOk, chDropped, chIdx, children,
  chTimeouts,         \* the batches whose timer fired before they settled
  \* ---- resolveSelectorTargets
  selPc, targets,
  \* ---- resolveSpecReferences
  refPc, refIdx, refs,
  \* ---- discoverRelationships itself
  discPc, discResult,
  \* ---- pattern-storage.ts: the PatternStore and its save queue
  scopes,             \* store.scopes: scope |-> sequence of StoredPattern
  updatedAt,          \* store.updatedAt
  patNow,             \* Date.now() as the pattern store reads it
  nextId,             \* ids generateId has handed out
  writeQueue,         \* the writes chained on writeQueue, oldest first
  issued,             \* savePatterns calls so far
  file,               \* content of patterns.json
  writeLog,           \* the writes performed, in order
  took,               \* the branch each candidate of the last merge call took
  \* ---- claude-client.ts: the OAuth credentials and the refreshes in flight
  authToken,          \* _authToken is set
  refreshToken,       \* _refreshToken is set
  tokenExpired,       \* Date.now() >= _tokenExpiresAt
  refreshPromise,     \* _refreshPromise is not null
  requests,           \* refreshAccessToken calls in flight, by who started them
  callerPc,           \* per analysis: position in its retryWithBackoff attempt
  callerTries,        \* per analysis: attempts rejected with a 401 so far
  \* ---- safeRegex: one call
  rxPad,              \* the pattern is rxPad times "a" followed by rxBody
  rxBody,             \* the rest of the pattern, one character per element
  rxResult,           \* what safeRegex returned: "null" or "RegExp"
  \* ---- findSpecReferences: one call
  scanPath,           \* the spec: the steps from its root to its one string leaf
  scanResult,         \* whether the call has returned, and the SpecRef[] it returned
  \* ---- LogAnalysisStore
  logAnalyses,        \* this.analyses: key |-> state (and the call that set it)
  abortControllers,   \* this.abortControllers: key |-> the call whose controller it is
  lastAnalysisRecent, \* per key: now - lastAnalysisTime.get(key) < 2000
  logCalls,           \* the analyze calls made so far, in order
  logEpoch,           \* number of clearAll calls so far
  \* ---- AIDrawerStore
  isOpen,             \* this.isOpen
  targetObject,       \* this.targetObject ("none": null)
  analysisState,      \* this.analysisState, with the object its data is for
  abortController,    \* this.abortController: the call whose controller it is
  lastAnalyzeRecent,  \* now - this.lastAnalyzeTime < 2000
  drawerCalls,        \* the analyze calls made so far, in order
  analysisCache       \* objects getCachedAnalysis has an entry for

retryVars == <<maxRetries, hasSignal, hasOnUnauthorized, pc, attempt, lastError,
               signalAborted, timer, fnCalls, unauthCalls, refreshed, waits,
               waitedMs, history, result>>

cacheVars == <<cmap, maxSize, ttl, now, activeCluster, ret>>

ownVars == <<ownPc, ownDepth, ownCurrent, ownRefs, ownIdx, owners>>
chVars == <<chPc, chBatch, chPending, chOk, chDropped, chIdx, children, chTimeouts>>
selVars == <<selPc, targets>>
refVars == <<refPc, refIdx, refs>>
discVars == <<object, ownVars, chVars, selVars, refVars, discPc, discResult>>

patVars == <<scopes, updatedAt, patNow, nextId, writeQueue, issued, file, writeLog, took>>

authVars == <<authToken, refreshToken, tokenExpired, refreshPromise, requests,
              callerPc, callerTries>>

rxVars == <<rxPad, rxBody, rxResult>>

scanVars == <<scanPath, scanResult>>

logVars == <<logAnalyses, abortControllers, lastAnalysisRecent, logCalls, logEpoch>>

drawerVars == <<isOpen, targetObject, analysisState, abortController, lastAnalyzeRecent,
                drawerCalls, analysisCache>>

vars == <<retryVars, cacheVars, analyses, orchestrator, discVars, patVars, authVars,
          rxVars, scanVars, logVars, drawerVars>>

\* ------------------------------------------------------------------------
\* Bounds
\* ------------------------------------------------------------------------
MaxRetriesBound == 3
TickMs == 2000
MaxSizeBound == 2
MaxNow == 2
MaxTtl == 1
NumAnalyses == 1
MaxAnalyzeSize == 2
Keys == {"k1", "k2", "k3"}
Clusters == {"A", "B"}

\* ------------------------------------------------------------------------
\* retry.ts
\* ------------------------------------------------------------------------
RETRYABLE_STATUS_CODES == {429, 503, 529}
NON_RETRYABLE_STATUS_CODES == {400, 403}
BACKOFF_DELAYS == <<2000, 6000>>

NoStatus == 0
NoError == [status |-> NoStatus, code |-> "none", name |-> "none", at |-> -1]

\* Settled state of the promise retryWithBackoff returns
Pending == [kind |-> "pending", err |-> NoError]
Resolved == [kind |-> "value", err |-> NoError]
Rejected(err) == [kind |-> "error", err |-> err]

\* Errors fn can reject with.  An HTTP error of the backend carries a status
\* and no code; a network-level failure carries no status and possibly a
\* node error code; a cancelled attempt is a status-less AbortError.
HttpStatuses == {400, 401, 403, 404, 429, 500, 503, 529}
ErrorCodes == {"none", "ECONNRESET", "ETIMEDOUT"}
FnErrors(at) ==
  {[status |-> s, code |-> "none", name |-> "Error", at |-> at] : s \in HttpStatuses}
  \cup {[status |-> NoStatus, code |-> c, name |-> "Error", at |-> at] : c \in ErrorCodes}
  \cup {[status |-> NoStatus, code |-> "none", name |-> "AbortError", at |-> at]}

\* new Error("AI returned an unexpected response. Please try again."), thrown
\* by fn of analyzeResource / analyzeLogsFn when JSON.parse of the reply fails
MalformedResponse(at) == [status |-> NoStatus, code |-> "none", name |-> "Error", at |-> at]

\* new DOMException("Aborted", "AbortError")
AbortError(at) == [status |-> NoStatus, code |-> "none", name |-> "AbortError", at |-> at]
\* new Error("Retry failed")
RetryFailed == [status |-> NoStatus, code |-> "none", name |-> "Error", at |-> -2]

\* (status && RETRYABLE_STATUS_CODES.has(status)) || !status
\*   || err.code === "ECONNRESET" || err.code === "ETIMEDOUT"
isRetryable_noNetwork(err) ==
  \/ (err.status # NoStatus /\ err.status \in RETRYABLE_STATUS_CODES)
  \/ err.code = "ECONNRESET"
  \/ err.code = "ETIMEDOUT"
isRetryable_5xx(err) ==
  \/ (err.status # NoStatus /\ err.status >= 500)
  \/ err.status = 429
  \/ err.status = NoStatus
  \/ err.code = "ECONNRESET"
  \/ err.code = "ETIMEDOUT"
isRetryable(err) ==
  \/ (err.status # NoStatus /\ err.status \in RETRYABLE_STATUS_CODES)
  \/ err.status = NoStatus
  \/ err.code = "ECONNRESET"
  \/ err.code = "ETIMEDOUT"

\* BACKOFF_DELAYS[attempt] || BACKOFF_DELAYS[BACKOFF_DELAYS.length - 1]
delay(a) ==
  IF a + 1 <= Len(BACKOFF_DELAYS) THEN BACKOFF_DELAYS[a + 1]
  ELSE BACKOFF_DELAYS[Len(BACKOFF_DELAYS)]

\* signal?.aborted (line 26)
signalIsAborted_m == hasSignal /\ signalAborted /\ attempt = 0
signalIsAborted == hasSignal /\ signalAborted

\* status === 401 && onUnauthorized && attempt < maxRetries (line 42)
shouldRefresh_m(err) == err.status = 401 /\ hasOnUnauthorized
shouldRefresh(err) == err.status = 401 /\ hasOnUnauthorized /\ attempt < maxRetries

\* attempt >= maxRetries (line 54)
exhausted_m == attempt > maxRetries
exhausted == attempt >= maxRetries

\* The value a cache lookup returns on a miss
NoRet == [hit |-> FALSE, data |-> "none", timestamp |-> 0]

IdleAnalysis == [st |-> "idle", key |-> "none", src |-> "none"]

\* The object discoverRelationships is called with, as far as the four
\* strategies look at it:
\*   isObject   FALSE: null / undefined
\*   ownerRefs  number of metadata.ownerReferences of the object (index 1) and
\*              of the owners up the chain of first references (index 2, ...)
\*   cyclic     the owner references form a cycle: the chain of first
\*              references comes back to the object and goes round again
\*   uid        metadata.uid is set
\*   crdGroup   apiVersion names a group other than apps/ and batch/
\*   groupResources  namespaced resources the discovery of that group lists
\*   items      the items the list requests of the child search return, each
\*              with the search path that lists it and the uids named by
\*              its metadata.ownerReferences
\*   kind       "Ingress", "ServiceMonitor" or "Other"
\*   selector   "none", "flat" (spec.selector is the label map) or
\*              "matchLabels"; "none" also when the object has no namespace
\*   backends   Ingress: number of distinct backend services named in spec
\*   specRefs   what findSpecReferences(spec) finds: "core" (a kind with a
\*              known REST path) or "other" per reference
NoResult == [owners |-> <<>>, children |-> <<>>, selectorTargets |-> <<>>,
             specReferences |-> <<>>]

Item(id, path, ownerUids) == [id |-> id, path |-> path, ownerUids |-> ownerUids]

NullObject ==
  [isObject |-> FALSE, ownerRefs |-> <<>>, uid |-> FALSE, crdGroup |-> FALSE,
   groupResources |-> 0, items |-> <<>>, kind |-> "Other", selector |-> "none",
   backends |-> 0, specRefs |-> <<>>, cyclic |-> FALSE]

\* the pattern store before any call: defaultStore(), nothing queued, no file
NoFile == [scopes |-> <<>>, updatedAt |-> -1]

\* the two stores as constructed
LogKeys == {"ns/pod", "ns/pod/app"}
NoCall == 0
IdleState == [status |-> "idle", by |-> NoCall]
NoAnalysis == [status |-> "idle", for |-> "none"]

IdleStores ==
  /\ logAnalyses = [key \in LogKeys |-> IdleState]
  /\ abortControllers = [key \in LogKeys |-> NoCall]
  /\ lastAnalysisRecent = [key \in LogKeys |-> FALSE]
  /\ logCalls = <<>>
  /\ logEpoch = 0
  /\ isOpen = FALSE
  /\ targetObject = "none"
  /\ analysisState = NoAnalysis
  /\ abortController = NoCall
  /\ lastAnalyzeRecent = FALSE
  /\ drawerCalls = <<>>
  /\ analysisCache = {}

\* no findSpecReferences call yet
NoScan == [done |-> FALSE, refs |-> <<>>]

IdleScan ==
  /\ scanPath = <<>> /\ scanResult = NoScan
  /\ IdleStores

\* no safeRegex call yet
IdleRegex ==
  /\ rxPad = 0 /\ rxBody = <<>> /\ rxResult = "pending"
  /\ IdleScan

\* the credentials before any analysis runs: logged in with OAuth, token fresh
NumCallers == 2
Callers == 1..NumCallers

IdleAuth ==
  /\ authToken = TRUE /\ refreshToken = TRUE /\ tokenExpired = FALSE
  /\ refreshPromise = FALSE /\ requests = {}
  /\ callerPc = [c \in Callers |-> "idle"]
  /\ callerTries = [c \in Callers |-> 0]
  /\ IdleRegex

IdlePatterns ==
  /\ scopes = <<>> /\ updatedAt = 0 /\ patNow = 1 /\ nextId = 0
  /\ writeQueue = <<>> /\ issued = 0 /\ file = NoFile /\ writeLog = <<>>
  /\ took = <<>>

IdleDiscover ==
  /\ object = NullObject
  /\ ownPc = "idle" /\ ownDepth = 0 /\ ownCurrent = 0 /\ ownRefs = 0 /\ ownIdx = 0
  /\ owners = <<>>
  /\ chPc = "idle" /\ chBatch = 0 /\ chPending = {} /\ chOk = {}
  /\ chDropped = {} /\ chIdx = 0 /\ children = <<>> /\ chTimeouts = {}
  /\ selPc = "idle" /\ targets = <<>>
  /\ refPc = "idle" /\ refIdx = 0 /\ refs = <<>>
  /\ discPc = "idle" /\ discResult = NoResult
  /\ IdlePatterns

\* Components that take no step in a specification stay in these states
IdleCache ==
  /\ cmap = <<>>
  /\ maxSize = 1
  /\ ttl = 0
  /\ now = 0
  /\ activeCluster = "A"
  /\ ret = NoRet
  /\ analyses = [p \in 1..NumAnalyses |-> IdleAnalysis]
  /\ orchestrator = "resource"
  /\ IdleDiscover

IdleRetry ==
  /\ maxRetries = 0 /\ hasSignal = FALSE /\ hasOnUnauthorized = FALSE
  /\ pc = "loop" /\ attempt = 0 /\ lastError = NoError /\ signalAborted = FALSE
  /\ timer = 0 /\ fnCalls = 0 /\ unauthCalls = 0 /\ refreshed = "none"
  /\ waits = 0 /\ waitedMs = 0 /\ history = <<>> /\ result = Pending
  /\ IdleAuth

InitRetry ==
  /\ IdleCache
  /\ IdleAuth
  /\ maxRetries \in 0..MaxRetriesBound
  /\ hasSignal \in BOOLEAN
  /\ hasOnUnauthorized \in BOOLEAN
  /\ pc = "loop"
  /\ attempt = 0
  /\ lastError = NoError
  /\ signalAborted \in BOOLEAN
  /\ (signalAborted => hasSignal)
  /\ timer = 0
  /\ fnCalls = 0
  /\ unauthCalls = 0
  /\ refreshed = "none"
  /\ waits = 0
  /\ waitedMs = 0
  /\ history = <<>>
  /\ result = Pending

\* The catch block of one iteration, entered with err while attempt is the
\* loop variable (lines 30-67).
Catch(err) ==
  /\ lastError' = err
  /\ IF err.name = "AbortError"
       THEN /\ pc' = "rejected" /\ result' = Rejected(err)
            /\ UNCHANGED <<unauthCalls, timer, waits>>
     ELSE IF err.status # NoStatus /\ err.status \in NON_RETRYABLE_STATUS_CODES
       THEN /\ pc' = "rejected" /\ result' = Rejected(err)
            /\ UNCHANGED <<unauthCalls, timer, waits>>
     ELSE IF shouldRefresh(err)
       THEN /\ pc' = "refreshing" /\ unauthCalls' = unauthCalls + 1
            /\ UNCHANGED <<result, timer, waits>>
     ELSE IF ~isRetryable(err) \/ exhausted
       THEN /\ pc' = "rejected" /\ result' = Rejected(err)
            /\ UNCHANGED <<unauthCalls, timer, waits>>
     ELSE /\ pc' = "backoff" /\ timer' = delay(attempt) /\ waits' = waits + 1
          /\ UNCHANGED <<unauthCalls, result>>

\* Top of one loop iteration (lines 24-29, 71): the loop test, the check of
\* signal.aborted and the synchronous start of fn(signal).
Attempt ==
  /\ pc = "loop"
  /\ IF attempt > maxRetries
       THEN /\ pc' = "rejected"
            /\ result' = Rejected(IF lastError # NoError THEN lastError ELSE RetryFailed)
            /\ UNCHANGED <<lastError, fnCalls, unauthCalls, timer, waits>>
     ELSE IF signalIsAborted
       THEN /\ Catch(AbortError(attempt))
            /\ UNCHANGED fnCalls
     ELSE /\ pc' = "inflight"
          /\ fnCalls' = fnCalls + 1
          /\ UNCHANGED <<lastError, result, unauthCalls, timer, waits>>
  /\ UNCHANGED <<cacheVars, analyses, orchestrator, authVars, rxVars, scanVars, logVars, drawerVars, patVars, discVars>>
  /\ UNCHANGED <<maxRetries, hasSignal, hasOnUnauthorized, attempt, signalAborted,
                 refreshed, waitedMs, history>>

\* fn(signal) resolves: return await fn(signal) (line 29)
FnResolves ==
  /\ pc = "inflight"
  /\ pc' = "resolved"
  /\ result' = Resolved
  /\ UNCHANGED <<cacheVars, analyses, orchestrator, authVars, rxVars, scanVars, logVars, drawerVars, patVars, discVars>>
  /\ UNCHANGED <<maxRetries, hasSignal, hasOnUnauthorized, attempt, lastError,
                 signalAborted, timer, fnCalls, unauthCalls, refreshed, waits,
                 waitedMs, history>>

\* fn(signal) rejects with err: the catch block runs (lines 30-67)
FnRejects(err) ==
  /\ pc = "inflight"
  /\ history' = Append(history, err)
  /\ Catch(err)
  /\ UNCHANGED <<cacheVars, analyses, orchestrator, authVars, rxVars, scanVars, logVars, drawerVars, patVars, discVars>>
  /\ UNCHANGED <<maxRetries, hasSignal, hasOnUnauthorized, attempt, signalAborted,
                 fnCalls, refreshed, waitedMs>>

\* onUnauthorized() resolves with ok (lines 43-45)
OnUnauthorizedResolves(ok) ==
  /\ pc = "refreshing"
  /\ refreshed' = (IF ok THEN "truthy" ELSE "falsy")
  /\ IF ok
       THEN /\ pc' = "loop" /\ attempt' = attempt + 1
            /\ UNCHANGED result
       ELSE /\ pc' = "rejected" /\ result' = Rejected(lastError)
            /\ UNCHANGED attempt
  /\ UNCHANGED <<cacheVars, analyses, orchestrator, authVars, rxVars, scanVars, logVars, drawerVars, patVars, discVars>>
  /\ UNCHANGED <<maxRetries, hasSignal, hasOnUnauthorized, lastError,
                 signalAborted, timer, fnCalls, unauthCalls, waits, waitedMs,
                 history>>

\* Time passes inside the backoff wait; when the delay has elapsed the timer
\* resolves the wait and the loop goes to its next iteration (lines 58-59, 24).
BackoffTick ==
  /\ pc = "backoff"
  /\ waitedMs' = waitedMs + (IF timer > TickMs THEN TickMs ELSE timer)
  /\ IF timer > TickMs
       THEN /\ timer' = timer - TickMs
            /\ UNCHANGED <<pc, attempt>>
       ELSE /\ timer' = 0
            /\ pc' = "loop"
            /\ attempt' = attempt + 1
  /\ UNCHANGED <<cacheVars, analyses, orchestrator, authVars, rxVars, scanVars, logVars, drawerVars, patVars, discVars>>
  /\ UNCHANGED <<maxRetries, hasSignal, hasOnUnauthorized, lastError,
                 signalAborted, fnCalls, unauthCalls, refreshed, waits, history,
                 result>>

\* if (signal) signal.addEventListener("abort", onAbort, { once: true })
\* (lines 60-66): a pending backoff wait of a call with a signal has its
\* onAbort listener registered.
onAbortRegistered_m == FALSE
onAbortRegistered == pc = "backoff" /\ hasSignal

\* The owner of the signal aborts it.  The abort event is dispatched once, to
\* the listeners registered at that moment: the onAbort listener of a pending
\* backoff wait clears the timer and rejects the wait (lines 60-66); the
\* rejection leaves the catch block and rejects the call.
Abort ==
  /\ hasSignal
  /\ ~signalAborted
  /\ pc \in {"loop", "inflight", "refreshing", "backoff"}
  /\ signalAborted' = TRUE
  /\ IF onAbortRegistered
       THEN /\ timer' = 0
            /\ pc' = "rejected"
            /\ result' = Rejected(AbortError(attempt))
       ELSE UNCHANGED <<timer, pc, result>>
  /\ UNCHANGED <<cacheVars, analyses, orchestrator, authVars, rxVars, scanVars, logVars, drawerVars, patVars, discVars>>
  /\ UNCHANGED <<maxRetries, hasSignal, hasOnUnauthorized, attempt, lastError,
                 fnCalls, unauthCalls, refreshed, waits, waitedMs, history>>

NextRetry ==
  \/ Attempt
  \/ FnResolves
  \/ \E err \in FnErrors(attempt) : FnRejects(err)
  \/ \E ok \in BOOLEAN : OnUnauthorizedResolves(ok)
  \/ BackoffTick
  \/ Abort

SpecRetry == InitRetry /\ [][NextRetry]_vars

TypeOKRetry ==
  /\ pc \in {"loop", "inflight", "refreshing", "backoff", "resolved", "rejected"}
  /\ attempt \in 0..(maxRetries + 1)
  /\ fnCalls \in 0..(maxRetries + 1)


\* ------------------------------------------------------------------------
\* bounded-cache.ts
\* ------------------------------------------------------------------------
\* A CacheEntry is [timestamp, data]; the Map is the sequence of its
\* [sk, timestamp, data] in insertion order.  data is identified by the
\* cluster it was obtained from.
Hit(e) == [hit |-> TRUE, data |-> e.data, timestamp |-> e.timestamp]

\* `${getActiveClusterId()}:${key}`
scopedKey(key) == <<activeCluster, key>>

\* Map.prototype.has / get / delete / set
MapHas(m, sk) == \E i \in 1..Len(m) : m[i].sk = sk
MapGet(m, sk) == m[CHOOSE i \in 1..Len(m) : m[i].sk = sk]
MapDelete(m, sk) == SelectSeq(m, LAMBDA e : e.sk # sk)
MapSet(m, sk, ts, data) ==
  IF MapHas(m, sk)
    THEN [i \in 1..Len(m) |->
            IF m[i].sk = sk THEN [sk |-> sk, timestamp |-> ts, data |-> data]
            ELSE m[i]]
    ELSE Append(m, [sk |-> sk, timestamp |-> ts, data |-> data])

\* Date.now() - entry.timestamp > this.getTtlMs()  (line 35)
isExpired_m(entry) == now - entry.timestamp >= ttl
isExpired(entry) == now - entry.timestamp > ttl

\* while (this.map.size >= this.maxSize) delete the first key  (lines 47-54)
RECURSIVE evictOldest(_)
evictOldest_m(m) == IF Len(m) > maxSize /\ Len(m) > 0 THEN Tail(m) ELSE m
evictOldest(m) ==
  IF Len(m) >= maxSize /\ Len(m) > 0 THEN evictOldest(Tail(m)) ELSE m

\* get(key): the value returned and the map afterwards  (lines 30-41)
getResult(key) ==
  IF ~MapHas(cmap, scopedKey(key)) THEN NoRet
  ELSE IF isExpired(MapGet(cmap, scopedKey(key))) THEN NoRet
  ELSE Hit(MapGet(cmap, scopedKey(key)))
getMap(key) ==
  IF MapHas(cmap, scopedKey(key)) /\ isExpired(MapGet(cmap, scopedKey(key)))
    THEN MapDelete(cmap, scopedKey(key))
    ELSE cmap

\* set(key, data): the map afterwards  (lines 43-57)
setMap(key, data) == MapSet(evictOldest(cmap), scopedKey(key), now, data)

\* new BoundedCache(ttlMs, maxSize)
InitCache ==
  /\ IdleRetry
  /\ cmap = <<>>
  /\ maxSize \in 0..MaxSizeBound
  /\ ttl \in 0..MaxTtl
  /\ now = 0
  /\ activeCluster \in Clusters
  /\ ret = NoRet
  /\ analyses = [p \in 1..NumAnalyses |-> IdleAnalysis]
  /\ orchestrator = "resource"
  /\ IdleDiscover

CacheGet(key) ==
  /\ ret' = getResult(key)
  /\ cmap' = getMap(key)
  /\ UNCHANGED <<maxSize, ttl, now, activeCluster, analyses, orchestrator, authVars, rxVars, scanVars, logVars, drawerVars, patVars, retryVars, discVars>>

\* a caller stores data it obtained from the active cluster
CacheSet(key) ==
  /\ cmap' = setMap(key, activeCluster)
  /\ ret' = NoRet
  /\ UNCHANGED <<maxSize, ttl, now, activeCluster, analyses, orchestrator, authVars, rxVars, scanVars, logVars, drawerVars, patVars, retryVars, discVars>>

\* delete(key)  (lines 59-61)
CacheDelete(key) ==
  /\ cmap' = MapDelete(cmap, scopedKey(key))
  /\ ret' = NoRet
  /\ UNCHANGED <<maxSize, ttl, now, activeCluster, analyses, orchestrator, authVars, rxVars, scanVars, logVars, drawerVars, patVars, retryVars, discVars>>

\* clear()  (lines 63-65)
CacheClear ==
  /\ cmap' = <<>>
  /\ ret' = NoRet
  /\ UNCHANGED <<maxSize, ttl, now, activeCluster, analyses, orchestrator, authVars, rxVars, scanVars, logVars, drawerVars, patVars, retryVars, discVars>>

\* the clock advances
ClockTick ==
  /\ now < MaxNow
  /\ now' = now + 1
  /\ ret' = NoRet
  /\ UNCHANGED <<cmap, maxSize, ttl, activeCluster, analyses, orchestrator, authVars, rxVars, scanVars, logVars, drawerVars, patVars, retryVars, discVars>>

\* the configuration is reloaded: the TTL provider returns another value
ReloadConfig(t) ==
  /\ t # ttl
  /\ ttl' = t
  /\ ret' = NoRet
  /\ UNCHANGED <<cmap, maxSize, now, activeCluster, analyses, orchestrator, authVars, rxVars, scanVars, logVars, drawerVars, patVars, retryVars, discVars>>

\* the user connects to another cluster
SwitchCluster(c) ==
  /\ c # activeCluster
  /\ activeCluster' = c
  /\ ret' = NoRet
  /\ UNCHANGED <<cmap, maxSize, ttl, now, analyses, orchestrator, authVars, rxVars, scanVars, logVars, drawerVars, patVars, retryVars, discVars>>

NextCache ==
  \/ \E key \in Keys : CacheGet(key)
  \/ \E key \in Keys : CacheSet(key)
  \/ \E key \in Keys : CacheDelete(key)
  \/ CacheClear
  \/ ClockTick
  \/ \E t \in 0..MaxTtl : ReloadConfig(t)
  \/ \E c \in Clusters : SwitchCluster(c)

SpecCache == InitCache /\ [][NextCache]_vars

\* ------------------------------------------------------------------------
\* analyzeResource (analyze.ts) and analyzeLogsFn (log analysis): the cached,
\* retried request to the backend.  Both have the same shape; analyzeLogsFn
\* has in addition the force flag and the early return on empty logs.
\* ------------------------------------------------------------------------
InitAnalyze ==
  /\ IdleRetry
  /\ cmap = <<>>
  /\ maxSize \in 1..MaxAnalyzeSize
  /\ ttl \in 0..MaxTtl
  /\ now = 0
  /\ activeCluster \in Clusters
  /\ ret = NoRet
  /\ analyses = [p \in 1..NumAnalyses |-> IdleAnalysis]
  /\ orchestrator \in {"resource", "logs"}
  /\ IdleDiscover

\* The call starts: the cache lookup (skipped when forced), and on a miss the
\* requests to the active cluster are issued and awaited.
AnalyzeStart(p, key, force) ==
  /\ analyses[p].st = "idle"
  /\ force => orchestrator = "logs"
  /\ IF ~force /\ getResult(key).hit
       THEN /\ ret' = getResult(key)
            /\ cmap' = getMap(key)
            /\ UNCHANGED analyses
       ELSE /\ ret' = NoRet
            /\ cmap' = (IF force THEN cmap ELSE getMap(key))
            /\ analyses' = [analyses EXCEPT ![p] =
                  [st |-> "context", key |-> key, src |-> activeCluster]]
  /\ UNCHANGED <<maxSize, ttl, now, activeCluster, orchestrator, authVars, rxVars, scanVars, logVars, drawerVars, patVars, retryVars, discVars>>

\* The awaited context / logs arrive ("ok"), the logs are empty ("empty":
\* analyzeLogsFn returns a fixed answer without caching), or a request
\* rejects ("fail": the call rejects).
AnalyzeContext(p, outcome) ==
  /\ analyses[p].st = "context"
  /\ outcome = "empty" => orchestrator = "logs"
  /\ analyses' = [analyses EXCEPT ![p] =
        IF outcome = "ok" THEN [@ EXCEPT !.st = "backend"] ELSE IdleAnalysis]
  /\ ret' = NoRet
  /\ UNCHANGED <<cmap, maxSize, ttl, now, activeCluster, orchestrator, authVars, rxVars, scanVars, logVars, drawerVars, patVars, retryVars, discVars>>

\* retryWithBackoff settles: on success the result is cached under the key
\* scoped by the cluster active now, and returned; on failure the call rejects.
AnalyzeBackend(p, ok) ==
  /\ analyses[p].st = "backend"
  /\ cmap' = (IF ok THEN setMap(analyses[p].key, analyses[p].src) ELSE cmap)
  /\ analyses' = [analyses EXCEPT ![p] = IdleAnalysis]
  /\ ret' = NoRet
  /\ UNCHANGED <<maxSize, ttl, now, activeCluster, orchestrator, authVars, rxVars, scanVars, logVars, drawerVars, patVars, retryVars, discVars>>

NextAnalyze ==
  \/ \E p \in 1..NumAnalyses, key \in Keys, force \in BOOLEAN : AnalyzeStart(p, key, force)
  \/ \E p \in 1..NumAnalyses, outcome \in {"ok", "empty", "fail"} : AnalyzeContext(p, outcome)
  \/ \E p \in 1..NumAnalyses, ok \in BOOLEAN : AnalyzeBackend(p, ok)
  \/ \E key \in Keys : CacheGet(key)
  \/ \E key \in Keys : CacheDelete(key)
  \/ CacheClear
  \/ ClockTick
  \/ \E c \in Clusters : SwitchCluster(c)

SpecAnalyze == InitAnalyze /\ [][NextAnalyze]_vars

\* ------------------------------------------------------------------------
\* relationship-discovery.ts
\* ------------------------------------------------------------------------
\* An awaited cluster API request settles in one of three ways: "ok" (a
\* well-formed answer), "fail" (the request rejects; apiGetSafe turns that
\* into null) or "bad" (an answer whose processing throws, such as a list
\* holding a null item).
ApiOutcomes == {"ok", "fail", "bad"}

maxDepth == 5
batchSize == 5
CHILD_SEARCH_PATHS_length == 21
maxRelationshipChildren == 50
MaxGroupResources == 10

Repeat(x, n) == [i \in 1..n |-> x]
Min(a, b) == IF a < b THEN a ELSE b

\* ---- 1. walkOwnersUp (lines 53-88) ----
\* current?.metadata?.ownerReferences, for the object at chain level l
refsOf(l) ==
  IF ~object.isObject \/ Len(object.ownerRefs) = 0 THEN 0
  ELSE IF object.cyclic THEN object.ownerRefs[(l % Len(object.ownerRefs)) + 1]
  ELSE IF l + 1 <= Len(object.ownerRefs) THEN object.ownerRefs[l + 1]
  ELSE 0

\* the relationship tag of an owner found at a depth (line 67)
ownerRelationship_m(depth) == <<"owner (depth", depth, ")">>

ownerRelationship(depth) ==
  IF depth = 0 THEN <<"direct owner">> ELSE <<"owner (depth", depth + 1, ")">>

\* the synchronous start: the first iteration up to the first await
walkOwnersUpStart ==
  /\ owners' = <<>>
  /\ ownDepth' = 0
  /\ ownCurrent' = 0
  /\ ownRefs' = 0
  /\ IF refsOf(0) = 0
       THEN ownPc' = "done" /\ ownIdx' = 0
       ELSE ownPc' = "await" /\ ownIdx' = 1

\* resolveOwnerRef(ref) settles for the reference ownIdx of level ownRefs
OwnerResolved(outcome) ==
  /\ ownPc = "await"
  /\ IF outcome = "bad"
       THEN /\ ownPc' = "failed"
            /\ UNCHANGED <<ownDepth, ownCurrent, ownRefs, ownIdx, owners>>
       ELSE LET cur == IF outcome = "ok" /\ ownIdx = 1 THEN ownRefs + 1
                       ELSE ownCurrent
                pushed == Append(owners, [level |-> ownRefs, idx |-> ownIdx,
                                          depth |-> ownDepth,
                                          relationship |-> ownerRelationship(ownDepth),
                                          fetched |-> (outcome = "ok")])
            IN /\ owners' = pushed
               /\ ownCurrent' = cur
               /\ IF ownIdx < refsOf(ownRefs)
                    THEN /\ ownIdx' = ownIdx + 1
                         /\ UNCHANGED <<ownPc, ownDepth, ownRefs>>
                  ELSE IF (cur = 0 /\ ownDepth = 0)
                          \/ ownDepth + 1 >= maxDepth
                          \/ refsOf(cur) = 0
                    THEN /\ ownPc' = "done"
                         /\ UNCHANGED <<ownDepth, ownRefs, ownIdx>>
                  ELSE /\ ownDepth' = ownDepth + 1
                       /\ ownRefs' = cur
                       /\ ownIdx' = 1
                       /\ UNCHANGED ownPc
  /\ UNCHANGED <<object, chVars, selVars, refVars, discPc, discResult>>
  /\ UNCHANGED <<retryVars, cacheVars, analyses, orchestrator, authVars, rxVars, scanVars, logVars, drawerVars, patVars>>

\* ---- 2. findChildren (lines 142-231) ----
\* the uid of the object whose children are searched
TargetUid == "U"

\* CHILD_SEARCH_PATHS.slice(i, i + batchSize) for batch b (i = 5b), as the
\* positions 1..21 of the list; position 21 + r is resource r of the object's
\* own API group
batchPaths(b) ==
  (b * batchSize + 1)..Min(b * batchSize + batchSize, CHILD_SEARCH_PATHS_length)

groupPath(r) == CHILD_SEARCH_PATHS_length + r

\* result.items of the list request of a path
itemsOf(path) == SelectSeq(object.items, LAMBDA item : item.path = path)

withItems(paths) == {path \in paths : itemsOf(path) # <<>>}

\* (item.metadata?.ownerReferences || []).some(ref => ref.uid === uid)
isOwnedBy_m(item) == item.ownerUids # {}

isOwnedBy(item) == TargetUid \in item.ownerUids

asChild(item) == [id |-> item.id, path |-> item.path, relationship |-> "child (owned)"]

\* .filter(...).map(...) of lines 171-182
RECURSIVE ownedChildren(_)
ownedChildren(items) ==
  IF items = <<>> THEN <<>>
  ELSE (IF isOwnedBy(Head(items)) THEN <<asChild(Head(items))>> ELSE <<>>)
         \o ownedChildren(Tail(items))

\* the results of Promise.all, flattened in the order of the paths first..last;
\* a path that was not answered with items contributes nothing
RECURSIVE batchResults(_, _, _)
batchResults(first, last, ok) ==
  IF first > last THEN <<>>
  ELSE (IF first \in ok THEN ownedChildren(itemsOf(first)) ELSE <<>>)
         \o batchResults(first + 1, last, ok)

\* after the built-in batches: the targeted search of the object's own group
crdPass(kids, dropped) ==
  /\ children' = kids
  /\ chDropped' = dropped
  /\ chPending' = {}
  /\ chOk' = {}
  /\ chIdx' = 0
  /\ chPc' = (IF object.crdGroup THEN "discover" ELSE "done")
  /\ UNCHANGED chBatch

\* the batch has settled, ok being the paths whose items count: push them,
\* then the next batch, or the end of the loop (lines 190-195)
batchEnd(ok, dropped) ==
  LET kids == children \o batchResults(chBatch * batchSize + 1,
                                       Min(chBatch * batchSize + batchSize,
                                           CHILD_SEARCH_PATHS_length), ok)
  IN IF Len(kids) >= maxRelationshipChildren
          \/ (chBatch + 1) * batchSize >= CHILD_SEARCH_PATHS_length
       THEN crdPass(kids, dropped)
       ELSE /\ children' = kids
            /\ chDropped' = dropped
            /\ chBatch' = chBatch + 1
            /\ chPending' = batchPaths(chBatch + 1)
            /\ chOk' = {}
            /\ UNCHANGED <<chPc, chIdx>>

findChildrenStart ==
  IF ~object.isObject
    THEN /\ chPc' = "failed"
         /\ chBatch' = 0 /\ chPending' = {} /\ chOk' = {}
         /\ chDropped' = {} /\ chIdx' = 0 /\ children' = <<>>
         /\ chTimeouts' = {}
  ELSE IF ~object.uid
    THEN /\ chPc' = "done"
         /\ chBatch' = 0 /\ chPending' = {} /\ chOk' = {}
         /\ chDropped' = {} /\ chIdx' = 0 /\ children' = <<>>
         /\ chTimeouts' = {}
  ELSE /\ chPc' = "batch"
       /\ chBatch' = 0 /\ chPending' = batchPaths(0) /\ chOk' = {}
       /\ chDropped' = {} /\ chIdx' = 0 /\ children' = <<>>
       /\ chTimeouts' = {}

\* the list request of one path of the running batch settles
ChildListSettles(outcome, path) ==
  /\ chPc = "batch"
  /\ path \in chPending
  /\ LET ok == IF outcome = "ok" THEN chOk \cup withItems({path}) ELSE chOk
         dropped == IF outcome = "fail" THEN chDropped \cup withItems({path})
                    ELSE chDropped
     IN IF outcome = "bad"
          THEN batchEnd({}, chDropped \cup withItems(batchPaths(chBatch)))
        ELSE IF chPending = {path}
          THEN batchEnd(ok, dropped)
        ELSE /\ chPending' = chPending \ {path}
             /\ chOk' = ok
             /\ chDropped' = dropped
             /\ UNCHANGED <<chPc, chBatch, chIdx, children>>
  /\ UNCHANGED chTimeouts
  /\ UNCHANGED <<object, ownVars, selVars, refVars, discPc, discResult>>
  /\ UNCHANGED <<retryVars, cacheVars, analyses, orchestrator, authVars, rxVars, scanVars, logVars, drawerVars, patVars>>

\* what the race leaves of the answers ok that had arrived when the timer
\* won: the rejection is caught as [] (line 188)
raceLost_m(ok) == ok

raceLost(ok) == {}

\* the batch timer fires before the batch has settled (lines 185-188)
BatchTimeout ==
  /\ chPc = "batch"
  /\ chPending # {}
  /\ batchEnd(raceLost(chOk), chDropped \cup withItems(batchPaths(chBatch)))
  /\ chTimeouts' = chTimeouts \cup {chBatch}
  /\ UNCHANGED <<object, ownVars, selVars, refVars, discPc, discResult>>
  /\ UNCHANGED <<retryVars, cacheVars, analyses, orchestrator, authVars, rxVars, scanVars, logVars, drawerVars, patVars>>

\* the resources of the group pass: namespacedResources.slice(0, 10)
groupListed == Min(object.groupResources, MaxGroupResources)

groupPaths(from) == {groupPath(r) : r \in from..groupListed}

\* discoverGroupResources settles (lines 202-204, 503-515)
GroupDiscovered(outcome) ==
  /\ chPc = "discover"
  /\ IF outcome = "ok" /\ object.groupResources > 0
       THEN chPc' = "list" /\ chIdx' = 1 /\ UNCHANGED chDropped
       ELSE /\ chPc' = "done"
            /\ chDropped' = chDropped \cup withItems(groupPaths(1))
            /\ UNCHANGED chIdx
  /\ UNCHANGED <<chBatch, chPending, chOk, children, chTimeouts>>
  /\ UNCHANGED <<object, ownVars, selVars, refVars, discPc, discResult>>
  /\ UNCHANGED <<retryVars, cacheVars, analyses, orchestrator, authVars, rxVars, scanVars, logVars, drawerVars, patVars>>

\* the list request of group resource chIdx settles (lines 204-225)
GroupListSettles(outcome) ==
  /\ chPc = "list"
  /\ LET kids == IF outcome = "ok"
                   THEN children \o ownedChildren(itemsOf(groupPath(chIdx)))
                   ELSE children
     IN IF outcome = "bad"
          THEN /\ chPc' = "done"
               /\ chDropped' = chDropped \cup withItems(groupPaths(chIdx))
               /\ UNCHANGED <<chIdx, children>>
        ELSE /\ children' = kids
             /\ chDropped' = (IF outcome = "fail"
                                THEN chDropped \cup withItems({groupPath(chIdx)})
                                ELSE chDropped)
             /\ IF (outcome = "ok" /\ Len(kids) >= maxRelationshipChildren)
                     \/ chIdx >= groupListed
                  THEN /\ chPc' = "done"
                       /\ UNCHANGED chIdx
                  ELSE chIdx' = chIdx + 1 /\ UNCHANGED chPc
  /\ UNCHANGED <<chBatch, chPending, chOk, chTimeouts>>
  /\ UNCHANGED <<object, ownVars, selVars, refVars, discPc, discResult>>
  /\ UNCHANGED <<retryVars, cacheVars, analyses, orchestrator, authVars, rxVars, scanVars, logVars, drawerVars, patVars>>

\* ---- 3. resolveSelectorTargets (lines 235-294) ----
\* the ServiceMonitor block awaits a service list (lines 268-279)
monitorsServices == object.kind = "ServiceMonitor" /\ object.selector = "matchLabels"

resolveSelectorTargetsStart ==
  /\ targets' = <<>>
  /\ selPc' = (IF ~object.isObject THEN "failed"
               ELSE IF object.selector # "none" THEN "pods"
               ELSE IF monitorsServices THEN "services"
               ELSE "done")

\* the pod list of the selector settles with n pods (lines 250-263)
SelectorPodsSettle(outcome, n) ==
  /\ selPc = "pods"
  /\ outcome # "ok" => n = 0
  /\ IF outcome = "bad"
       THEN selPc' = "failed" /\ UNCHANGED targets
       ELSE /\ targets' = targets \o Repeat("Pod", n)
            /\ selPc' = (IF monitorsServices THEN "services" ELSE "done")
  /\ UNCHANGED <<object, ownVars, chVars, refVars, discPc, discResult>>
  /\ UNCHANGED <<retryVars, cacheVars, analyses, orchestrator, authVars, rxVars, scanVars, logVars, drawerVars, patVars>>

\* the service list of a ServiceMonitor settles with n services (lines 279-289)
SelectorServicesSettle(outcome, n) ==
  /\ selPc = "services"
  /\ outcome # "ok" => n = 0
  /\ IF outcome = "bad"
       THEN selPc' = "failed" /\ UNCHANGED targets
       ELSE /\ targets' = targets \o Repeat("Service", n)
            /\ selPc' = "done"
  /\ UNCHANGED <<object, ownVars, chVars, refVars, discPc, discResult>>
  /\ UNCHANGED <<retryVars, cacheVars, analyses, orchestrator, authVars, rxVars, scanVars, logVars, drawerVars, patVars>>

\* ---- 4. resolveSpecReferences (lines 308-379) ----
isCoreKind(r) == r = "core"

\* the generic loop from reference i on (lines 373-376): a reference of a
\* kind outside coreKinds is answered without a request, a core kind awaits
\* apiGetSafe
RECURSIVE resolveFrom(_, _)
resolveFrom(i, acc) ==
  IF i > Len(object.specRefs) THEN [pc |-> "done", idx |-> 0, refs |-> acc]
  ELSE IF isCoreKind(object.specRefs[i]) THEN [pc |-> "ref", idx |-> i, refs |-> acc]
  ELSE resolveFrom(i + 1, Append(acc, "(not verified)"))

\* the Ingress loop moves on from backend service i (lines 333-368)
afterService(i, acc) ==
  IF object.kind = "Ingress" /\ i < object.backends
    THEN [pc |-> "service", idx |-> i + 1, refs |-> acc]
    ELSE resolveFrom(1, acc)

refGoto(t) == refPc' = t.pc /\ refIdx' = t.idx /\ refs' = t.refs

resolveSpecReferencesStart ==
  IF ~object.isObject
    THEN refPc' = "failed" /\ refIdx' = 0 /\ refs' = <<>>
    ELSE refGoto(afterService(0, <<>>))

\* the backend service refIdx settles; hasSelector: it has spec.selector
BackendServiceSettles(outcome, hasSelector) ==
  /\ refPc = "service"
  /\ outcome # "ok" => ~hasSelector
  /\ IF outcome = "bad" THEN refPc' = "failed" /\ UNCHANGED <<refIdx, refs>>
     ELSE IF outcome = "fail" THEN refGoto(afterService(refIdx, refs))
     ELSE IF hasSelector
       THEN refPc' = "servicePods" /\ refs' = Append(refs, "Service")
            /\ UNCHANGED refIdx
     ELSE refGoto(afterService(refIdx, Append(refs, "Service")))
  /\ UNCHANGED <<object, ownVars, chVars, selVars, discPc, discResult>>
  /\ UNCHANGED <<retryVars, cacheVars, analyses, orchestrator, authVars, rxVars, scanVars, logVars, drawerVars, patVars>>

\* the pods behind backend service refIdx settle (lines 352-365)
BackendPodsSettle(outcome, n) ==
  /\ refPc = "servicePods"
  /\ outcome # "ok" => n = 0
  /\ IF outcome = "bad" THEN refPc' = "failed" /\ UNCHANGED <<refIdx, refs>>
     ELSE refGoto(afterService(refIdx, refs \o Repeat("Pod", n)))
  /\ UNCHANGED <<object, ownVars, chVars, selVars, discPc, discResult>>
  /\ UNCHANGED <<retryVars, cacheVars, analyses, orchestrator, authVars, rxVars, scanVars, logVars, drawerVars, patVars>>

\* the lookup of the core reference refIdx settles (lines 471-492)
ReferenceSettles(outcome) ==
  /\ refPc = "ref"
  /\ IF outcome = "bad" THEN refPc' = "failed" /\ UNCHANGED <<refIdx, refs>>
     ELSE refGoto(resolveFrom(refIdx + 1,
                  Append(refs, IF outcome = "ok" THEN "verified"
                               ELSE "(not verified)")))
  /\ UNCHANGED <<object, ownVars, chVars, selVars, discPc, discResult>>
  /\ UNCHANGED <<retryVars, cacheVars, analyses, orchestrator, authVars, rxVars, scanVars, logVars, drawerVars, patVars>>

\* ---- discoverRelationships (lines 594-604) ----
\* strategy(...).catch(() => []): a rejected strategy settles as fulfilled
\* with the empty list
guarded_m(st, value) == [pc |-> st, value |-> value]

guarded(st, value) ==
  IF st = "failed" THEN [pc |-> "done", value |-> <<>>]
  ELSE [pc |-> st, value |-> value]

strategies ==
  <<guarded(ownPc, owners), guarded(chPc, children),
    guarded(selPc, targets), guarded(refPc, refs)>>

\* the call: the four strategies run up to their first await
Discover ==
  /\ discPc = "idle"
  /\ walkOwnersUpStart
  /\ findChildrenStart
  /\ resolveSelectorTargetsStart
  /\ resolveSpecReferencesStart
  /\ discPc' = "awaiting"
  /\ UNCHANGED <<object, discResult>>
  /\ UNCHANGED <<retryVars, cacheVars, analyses, orchestrator, authVars, rxVars, scanVars, logVars, drawerVars, patVars>>

\* await Promise.all([...]): rejects as soon as one element rejects,
\* fulfils once all four are fulfilled
PromiseAll ==
  /\ discPc = "awaiting"
  /\ IF \E i \in 1..4 : strategies[i].pc = "failed"
       THEN discPc' = "rejected" /\ UNCHANGED discResult
       ELSE /\ \A i \in 1..4 : strategies[i].pc = "done"
            /\ discPc' = "returned"
            /\ discResult' = [owners |-> strategies[1].value,
                              children |-> strategies[2].value,
                              selectorTargets |-> strategies[3].value,
                              specReferences |-> strategies[4].value]
  /\ UNCHANGED <<object, ownVars, chVars, selVars, refVars>>
  /\ UNCHANGED <<retryVars, cacheVars, analyses, orchestrator, authVars, rxVars, scanVars, logVars, drawerVars, patVars>>

\* the objects discovery is run on
DiscoverObjects ==
  { NullObject,
    [NullObject EXCEPT !.isObject = TRUE],
    [NullObject EXCEPT !.isObject = TRUE, !.ownerRefs = <<1, 1>>, !.uid = TRUE,
                       !.specRefs = <<"core">>],
    [NullObject EXCEPT !.isObject = TRUE, !.ownerRefs = <<1>>, !.uid = TRUE,
                       !.items = <<Item(1, 1, {"U"})>>, !.selector = "matchLabels",
                       !.specRefs = <<"other", "core">>],
    [NullObject EXCEPT !.isObject = TRUE, !.uid = TRUE, !.crdGroup = TRUE,
                       !.kind = "Ingress", !.backends = 1],
    [NullObject EXCEPT !.isObject = TRUE, !.ownerRefs = <<1>>, !.uid = TRUE,
                       !.crdGroup = TRUE, !.groupResources = 1,
                       !.items = <<Item(1, 7, {"V"}), Item(2, 22, {"U", "V"})>>,
                       !.kind = "ServiceMonitor", !.selector = "matchLabels",
                       !.specRefs = <<"other">>] }

MaxItems == 1

InitDiscover ==
  /\ IdleRetry
  /\ cmap = <<>> /\ maxSize = 1 /\ ttl = 0 /\ now = 0
  /\ activeCluster = "A" /\ ret = NoRet
  /\ analyses = [p \in 1..NumAnalyses |-> IdleAnalysis]
  /\ orchestrator = "resource"
  /\ object \in DiscoverObjects
  /\ ownPc = "idle" /\ ownDepth = 0 /\ ownCurrent = 0 /\ ownRefs = 0 /\ ownIdx = 0
  /\ owners = <<>>
  /\ chPc = "idle" /\ chBatch = 0 /\ chPending = {} /\ chOk = {}
  /\ chDropped = {} /\ chIdx = 0 /\ children = <<>> /\ chTimeouts = {}
  /\ selPc = "idle" /\ targets = <<>>
  /\ refPc = "idle" /\ refIdx = 0 /\ refs = <<>>
  /\ discPc = "idle" /\ discResult = NoResult
  /\ IdlePatterns

NextDiscover ==
  \/ Discover
  \/ \E outcome \in ApiOutcomes : OwnerResolved(outcome)
  \/ \E outcome \in ApiOutcomes, path \in 1..CHILD_SEARCH_PATHS_length :
       ChildListSettles(outcome, path)
  \/ BatchTimeout
  \/ \E outcome \in ApiOutcomes : GroupDiscovered(outcome)
  \/ \E outcome \in ApiOutcomes : GroupListSettles(outcome)
  \/ \E outcome \in ApiOutcomes, n \in 0..MaxItems : SelectorPodsSettle(outcome, n)
  \/ \E outcome \in ApiOutcomes, n \in 0..MaxItems : SelectorServicesSettle(outcome, n)
  \/ \E outcome \in ApiOutcomes, hasSelector \in BOOLEAN :
       BackendServiceSettles(outcome, hasSelector)
  \/ \E outcome \in ApiOutcomes, n \in 0..MaxItems : BackendPodsSettle(outcome, n)
  \/ \E outcome \in ApiOutcomes : ReferenceSettles(outcome)
  \/ PromiseAll

SpecDiscover == InitDiscover /\ [][NextDiscover]_vars

\* What the run time guarantees of a discovery: the call is made, a timer
\* that was set fires (setTimeout, line 185), and a Promise.all whose members
\* have settled resumes the caller.  A request to the cluster (apiGet, lines
\* 38-41, has no timeout and takes no signal) may stay unanswered for ever, so
\* no step that needs an answer is fair.
SpecDiscoverLive ==
  /\ InitDiscover
  /\ [][NextDiscover]_vars
  /\ WF_vars(Discover)
  /\ WF_vars(BatchTimeout)
  /\ WF_vars(PromiseAll)

\* the same with every request answered in the end
SpecDiscoverAnswered ==
  /\ SpecDiscoverLive
  /\ WF_vars(\E outcome \in ApiOutcomes : OwnerResolved(outcome))
  /\ WF_vars(\E outcome \in ApiOutcomes : GroupDiscovered(outcome))
  /\ WF_vars(\E outcome \in ApiOutcomes : GroupListSettles(outcome))
  /\ WF_vars(\E outcome \in ApiOutcomes, n \in 0..MaxItems : SelectorPodsSettle(outcome, n))
  /\ WF_vars(\E outcome \in ApiOutcomes, n \in 0..MaxItems : SelectorServicesSettle(outcome, n))
  /\ WF_vars(\E outcome \in ApiOutcomes, hasSelector \in BOOLEAN :
               BackendServiceSettles(outcome, hasSelector))
  /\ WF_vars(\E outcome \in ApiOutcomes, n \in 0..MaxItems : BackendPodsSettle(outcome, n))
  /\ WF_vars(\E outcome \in ApiOutcomes : ReferenceSettles(outcome))

\* ---- the owner walk on its own ----
\* objects without uid, selector or spec references: strategies 2 to 4 settle
\* at once, only the owner walk awaits
MaxChain == 6

RefShapes ==
  {Repeat(1, n) : n \in 0..MaxChain} \cup {<<2>>, <<1, 2>>, <<2, 1>>, <<1, 1, 2>>}

WalkObjects ==
  {NullObject} \cup
  {[NullObject EXCEPT !.isObject = TRUE, !.ownerRefs = r, !.cyclic = c] :
     r \in RefShapes, c \in BOOLEAN}

InitWalk ==
  /\ IdleRetry
  /\ cmap = <<>> /\ maxSize = 1 /\ ttl = 0 /\ now = 0
  /\ activeCluster = "A" /\ ret = NoRet
  /\ analyses = [p \in 1..NumAnalyses |-> IdleAnalysis]
  /\ orchestrator = "resource"
  /\ object \in WalkObjects
  /\ ownPc = "idle" /\ ownDepth = 0 /\ ownCurrent = 0 /\ ownRefs = 0 /\ ownIdx = 0
  /\ owners = <<>>
  /\ chPc = "idle" /\ chBatch = 0 /\ chPending = {} /\ chOk = {}
  /\ chDropped = {} /\ chIdx = 0 /\ children = <<>> /\ chTimeouts = {}
  /\ selPc = "idle" /\ targets = <<>>
  /\ refPc = "idle" /\ refIdx = 0 /\ refs = <<>>
  /\ discPc = "idle" /\ discResult = NoResult
  /\ IdlePatterns

NextWalk ==
  \/ Discover
  \/ \E outcome \in ApiOutcomes : OwnerResolved(outcome)
  \/ PromiseAll

SpecWalk == InitWalk /\ [][NextWalk]_vars

\* ---- the child search on its own ----
\* objects without owner references, selector or spec references: only the
\* child search awaits. PodsObject is an object with a uid and five Pods in its
\* namespace, three of them owned by the uid, and a ReplicaSet owned by
\* another uid.
PodsObject ==
  [NullObject EXCEPT !.isObject = TRUE, !.uid = TRUE,
     !.items = <<Item(1, 1, {"U"}), Item(2, 1, {"V"}), Item(3, 1, {"U", "V"}),
                 Item(4, 1, {}), Item(5, 1, {"U"}), Item(6, 7, {"V"})>>]

ChildObjects ==
  { PodsObject,
    [NullObject EXCEPT !.isObject = TRUE, !.items = <<Item(1, 1, {"U"})>>],
    [NullObject EXCEPT !.isObject = TRUE, !.uid = TRUE, !.crdGroup = TRUE,
       !.groupResources = 2,
       !.items = <<Item(1, 2, {"U"}), Item(2, 21, {"U"}), Item(3, 22, {"V"}),
                   Item(4, 23, {"U"})>>] }

InitChildren ==
  /\ IdleRetry
  /\ cmap = <<>> /\ maxSize = 1 /\ ttl = 0 /\ now = 0
  /\ activeCluster = "A" /\ ret = NoRet
  /\ analyses = [p \in 1..NumAnalyses |-> IdleAnalysis]
  /\ orchestrator = "resource"
  /\ object \in ChildObjects
  /\ ownPc = "idle" /\ ownDepth = 0 /\ ownCurrent = 0 /\ ownRefs = 0 /\ ownIdx = 0
  /\ owners = <<>>
  /\ chPc = "idle" /\ chBatch = 0 /\ chPending = {} /\ chOk = {}
  /\ chDropped = {} /\ chIdx = 0 /\ children = <<>> /\ chTimeouts = {}
  /\ selPc = "idle" /\ targets = <<>>
  /\ refPc = "idle" /\ refIdx = 0 /\ refs = <<>>
  /\ discPc = "idle" /\ discResult = NoResult
  /\ IdlePatterns

NextChildren ==
  \/ Discover
  \/ \E outcome \in ApiOutcomes, path \in 1..CHILD_SEARCH_PATHS_length :
       ChildListSettles(outcome, path)
  \/ BatchTimeout
  \/ \E outcome \in ApiOutcomes : GroupDiscovered(outcome)
  \/ \E outcome \in ApiOutcomes : GroupListSettles(outcome)
  \/ PromiseAll

SpecChildren == InitChildren /\ [][NextChildren]_vars

\* ------------------------------------------------------------------------
\* pattern-storage.ts: mergeAIPatterns, removePattern, savePatterns
\* ------------------------------------------------------------------------
MAX_PATTERNS_PER_SCOPE == 50

Scopes == {"ns/app", "global"}

\* The regular expressions of the model and the log lines (numbered 1..5) each
\* one matches under new RegExp(regex, "i"); "(" does not compile; any other
\* regex string matches none of the five lines.
LogLineIds == 1..5

matchedLines(regex) ==
  CASE regex = "OOM" -> {1, 2, 3, 4, 5}
    [] regex = "oom|kill" -> {1, 2, 3, 4}
    [] regex = "kill" -> {1, 2, 3}
    [] OTHER -> {}

\* new RegExp(regex, "i") does not throw: of the regexes the candidates use,
\* "(" (unterminated group) and "(a|b)++" (nothing to repeat) are refused
compiles(regex) == regex \notin {"(", "(a|b)++"}

\* logLines.filter((l) => regex.test(l))
filterLines(lines, regex) == SelectSeq(lines, LAMBDA l : l \in matchedLines(regex))

\* overlap / newMatches.length >= 0.8 (line 222): 4/5 and 0.8 are the same
\* double, so the comparison is the one of the exact fractions
isOverlapping_m(overlap, matched) == 5 * overlap > 4 * matched

isOverlapping(overlap, matched) == 5 * overlap >= 4 * matched

MinOf(S) == CHOOSE i \in S : \A j \in S : i <= j

\* existing.find((e) => e.regex === np.regex), as the set of positions
exactMatches_m(existing, np) ==
  {i \in 1..Len(existing) : existing[i].regex = np.regex /\ existing[i].label = np.label}

exactMatches(existing, np) == {i \in 1..Len(existing) : existing[i].regex = np.regex}

\* the positions of the existing patterns the candidate overlaps with
overlapping(existing, newMatches) ==
  {i \in 1..Len(existing) :
     /\ compiles(existing[i].regex)
     /\ isOverlapping(Len(filterLines(newMatches, existing[i].regex)), Len(newMatches))}

\* one iteration of the loop over newPatterns (lines 194-244); st holds the
\* scope's list and the ids handed out so far
mergeOne(st, np, logLines, t) ==
  LET existing == st.existing
      exact == exactMatches(existing, np)
      newMatches == filterLines(logLines, np.regex)
      dups == overlapping(existing, newMatches)
  IN IF ~compiles(np.regex) THEN [st EXCEPT !.took = Append(@, "invalid")]
     ELSE IF exact # {}
       THEN [st EXCEPT !.existing[MinOf(exact)] =
               [@ EXCEPT !.hitCount = @ + 1, !.label = np.label,
                         !.description = np.description],
                       !.took = Append(@, "exact")]
     ELSE IF Len(logLines) > 0 /\ Len(newMatches) > 0 /\ dups # {}
       THEN [st EXCEPT !.existing[MinOf(dups)].hitCount = @ + 1,
                       !.took = Append(@, "overlap")]
     ELSE [existing |-> Append(existing,
                          [id |-> st.ids + 1, label |-> np.label, regex |-> np.regex,
                           discoveredAt |-> t, hitCount |-> 1,
                           description |-> np.description]),
           ids |-> st.ids + 1,
           took |-> Append(st.took, "pushed")]

RECURSIVE mergeAll(_, _, _, _)
mergeAll(st, newPatterns, logLines, t) ==
  IF newPatterns = <<>> THEN st
  ELSE mergeAll(mergeOne(st, Head(newPatterns), logLines, t),
                Tail(newPatterns), logLines, t)

\* the comparator of line 248: negative when a sorts before b
compare_m(a, b) ==
  IF a.hitCount # b.hitCount THEN a.hitCount - b.hitCount
  ELSE a.discoveredAt - b.discoveredAt

compare(a, b) ==
  IF b.hitCount - a.hitCount # 0 THEN b.hitCount - a.hitCount
  ELSE b.discoveredAt - a.discoveredAt

\* Array.prototype.sort is stable: x goes in front of the first element it
\* sorts before, behind everything else
insertSorted(sorted, x) ==
  LET at == 1 + Cardinality({j \in 1..Len(sorted) : compare(x, sorted[j]) >= 0})
  IN SubSeq(sorted, 1, at - 1) \o <<x>> \o SubSeq(sorted, at, Len(sorted))

RECURSIVE sortPatterns(_, _)
sortPatterns(sorted, rest) ==
  IF rest = <<>> THEN sorted
  ELSE CHOOSE out \in {sortPatterns(next, Tail(rest)) :
                         next \in {insertSorted(sorted, Head(rest))}} : TRUE

\* lines 246-250
capScope(existing) ==
  IF Len(existing) > MAX_PATTERNS_PER_SCOPE
    THEN SubSeq(sortPatterns(<<>>, existing), 1, MAX_PATTERNS_PER_SCOPE)
    ELSE existing

scopeOf(scope) == IF scope \in DOMAIN scopes THEN scopes[scope] ELSE <<>>

withScope(scope, list) ==
  [sc \in DOMAIN scopes \cup {scope} |-> IF sc = scope THEN list ELSE scopes[sc]]

\* savePatterns(store) (lines 62-75): chains one more write, performs none
savePatterns ==
  /\ issued' = issued + 1
  /\ writeQueue' = Append(writeQueue, issued + 1)
  /\ UNCHANGED <<file, writeLog, updatedAt>>

MaxIssued == 2
MaxPatNow == 2

MergeAIPatterns(scope, newPatterns, logLines) ==
  /\ issued < MaxIssued
  /\ LET merged == mergeAll([existing |-> scopeOf(scope), ids |-> nextId, took |-> <<>>],
                            newPatterns, logLines, patNow)
     IN /\ scopes' = withScope(scope, capScope(merged.existing))
        /\ nextId' = merged.ids
        /\ took' = merged.took
  /\ savePatterns
  /\ UNCHANGED patNow
  /\ UNCHANGED <<retryVars, cacheVars, analyses, orchestrator, authVars, rxVars, scanVars, logVars, drawerVars, discVars>>

RemovePattern(scope, patternId) ==
  /\ issued < MaxIssued
  /\ IF scope \notin DOMAIN scopes
       THEN UNCHANGED <<scopes, issued, writeQueue, file, writeLog, updatedAt>>
       ELSE /\ scopes' = withScope(scope, SelectSeq(scopes[scope],
                                                   LAMBDA e : e.id # patternId))
            /\ savePatterns
  /\ UNCHANGED <<patNow, nextId, took>>
  /\ UNCHANGED <<retryVars, cacheVars, analyses, orchestrator, authVars, rxVars, scanVars, logVars, drawerVars, discVars>>

\* the oldest chained write runs (lines 65-73): "ok", or mkdirSync throws
\* ("mkdir"), or writeFileSync throws ("write"); either error is logged and
\* the chain goes on
queueHead_m == writeQueue[Len(writeQueue)]

queueHead == Head(writeQueue)

RunWrite(outcome) ==
  /\ writeQueue # <<>>
  /\ writeQueue' = SelectSeq(writeQueue, LAMBDA job : job # queueHead)
  /\ updatedAt' = (IF outcome = "mkdir" THEN updatedAt ELSE patNow)
  /\ file' = (IF outcome = "ok" THEN [scopes |-> scopes, updatedAt |-> patNow]
              ELSE file)
  /\ writeLog' = Append(writeLog, [job |-> queueHead, outcome |-> outcome])
  /\ UNCHANGED <<scopes, patNow, nextId, issued, took>>
  /\ UNCHANGED <<retryVars, cacheVars, analyses, orchestrator, authVars, rxVars, scanVars, logVars, drawerVars, discVars>>

PatternClockTick ==
  /\ patNow < MaxPatNow
  /\ patNow' = patNow + 1
  /\ UNCHANGED <<scopes, updatedAt, nextId, writeQueue, issued, file, writeLog, took>>
  /\ UNCHANGED <<retryVars, cacheVars, analyses, orchestrator, authVars, rxVars, scanVars, logVars, drawerVars, discVars>>

\* the candidates an analysis may hand in, and the recent log lines
NewPattern(regex, label) ==
  [regex |-> regex, label |-> label, description |-> "about " \o label]

Candidates ==
  {NewPattern(r, "OOM") : r \in {"OOM", "oom|kill", "kill", "panic", "("}}
    \cup {NewPattern("OOM", "out of memory")}

CandidateLists ==
  {<<c>> : c \in Candidates} \cup {<<c, c>> : c \in Candidates}
    \cup {<<NewPattern("OOM", "OOM"), NewPattern("OOM", "out of memory")>>,
          <<NewPattern("kill", "OOM"), NewPattern("oom|kill", "OOM")>>}

LogLineLists == {<<>>, <<1, 2, 3, 4, 5>>, <<4, 5>>}

InitPatterns ==
  /\ IdleRetry
  /\ IdleCache

NextPatterns ==
  \/ \E scope \in Scopes, newPatterns \in CandidateLists, logLines \in LogLineLists :
       MergeAIPatterns(scope, newPatterns, logLines)
  \/ \E scope \in Scopes, patternId \in 1..(2 * MaxIssued) :
       RemovePattern(scope, patternId)

SpecPatterns == InitPatterns /\ [][NextPatterns]_vars

\* ---- the save queue: calls and writes interleaved ----
WriteOutcomes == {"ok", "mkdir", "write"}

InitSave ==
  /\ IdleRetry
  /\ IdleCache

NextSave ==
  \/ \E scope \in Scopes, regex \in {"OOM", "kill"} :
       MergeAIPatterns(scope, <<NewPattern(regex, "OOM")>>, <<>>)
  \/ \E scope \in Scopes, patternId \in 1..MaxIssued : RemovePattern(scope, patternId)
  \/ \E outcome \in WriteOutcomes : RunWrite(outcome)

SpecSave == InitSave /\ [][NextSave]_vars

\* ---- the per-scope cap: a store loaded with a scope that is full or one short ----
CapProfiles == {"flat", "mixed", "aged"}

\* a scope of n patterns with distinct regexes, as earlier merges leave it
filledScope(n, profile) ==
  [i \in 1..n |->
     [id |-> i, label |-> "OOM", regex |-> "p" \o ToString(i),
      discoveredAt |-> (IF profile = "aged" THEN i % 2 ELSE 1),
      hitCount |-> (IF profile = "flat" THEN 1 ELSE 1 + (i % 3)),
      description |-> "about OOM"]]

InitCap ==
  /\ IdleRetry
  /\ cmap = <<>> /\ maxSize = 1 /\ ttl = 0 /\ now = 0
  /\ activeCluster = "A" /\ ret = NoRet
  /\ analyses = [p \in 1..NumAnalyses |-> IdleAnalysis]
  /\ orchestrator = "resource"
  /\ object = NullObject
  /\ ownPc = "idle" /\ ownDepth = 0 /\ ownCurrent = 0 /\ ownRefs = 0 /\ ownIdx = 0
  /\ owners = <<>>
  /\ chPc = "idle" /\ chBatch = 0 /\ chPending = {} /\ chOk = {}
  /\ chDropped = {} /\ chIdx = 0 /\ children = <<>> /\ chTimeouts = {}
  /\ selPc = "idle" /\ targets = <<>>
  /\ refPc = "idle" /\ refIdx = 0 /\ refs = <<>>
  /\ discPc = "idle" /\ discResult = NoResult
  /\ \E n \in {MAX_PATTERNS_PER_SCOPE - 1, MAX_PATTERNS_PER_SCOPE},
        profile \in CapProfiles :
       /\ scopes = [sc \in {"global"} |-> filledScope(n, profile)]
       /\ nextId = n
  /\ updatedAt = 0 /\ patNow = 1
  /\ writeQueue = <<>> /\ issued = 0 /\ file = NoFile /\ writeLog = <<>>
  /\ took = <<>>

CapCandidates ==
  {NewPattern(r, "OOM") : r \in {"n1", "n2", "p1", "p2"}}

CapCandidateLists ==
  {<<c>> : c \in CapCandidates}
    \cup {<<NewPattern("n1", "OOM"), NewPattern("n2", "OOM")>>,
          <<NewPattern("n1", "OOM"), NewPattern("p1", "OOM")>>,
          <<NewPattern("p2", "OOM"), NewPattern("n2", "OOM")>>}

NextCap ==
  \/ \E newPatterns \in CapCandidateLists : MergeAIPatterns("global", newPatterns, <<>>)
  \/ \E patternId \in {1, 2} : RemovePattern("global", patternId)
  \/ PatternClockTick

SpecCap == InitCap /\ [][NextCap]_vars

\* ------------------------------------------------------------------------
\* claude-client.ts: getClient and tryRefreshAuth, as the analyses use them
\* (retryWithBackoff(fn, signal, 2, tryRefreshAuth), fn starting with
\* getClient()).  OAuth login; no API key is configured.
\* ------------------------------------------------------------------------
analysisMaxRetries == 2

\* the attempt of caller c rejected with an error that has no status:
\* retried after a backoff while attempts are left
rejectedNoStatus(c) ==
  IF callerTries[c] >= analysisMaxRetries THEN "failed" ELSE "backoff"

\* getClient(), up to its first await or its return
GetClient(c) ==
  /\ callerPc[c] = "idle"
  /\ IF authToken
       THEN IF tokenExpired /\ refreshToken
              THEN /\ IF ~refreshPromise
                        THEN /\ refreshPromise' = TRUE
                             /\ requests' = requests \cup
                                  {[fn |-> "getClient", caller |-> c]}
                        ELSE UNCHANGED <<refreshPromise, requests>>
                   /\ callerPc' = [callerPc EXCEPT ![c] = "awaitShared"]
              ELSE /\ callerPc' = [callerPc EXCEPT ![c] = "calling"]
                   /\ UNCHANGED <<refreshPromise, requests>>
       ELSE /\ callerPc' = [callerPc EXCEPT ![c] = rejectedNoStatus(c)]
            /\ UNCHANGED <<refreshPromise, requests>>
  /\ UNCHANGED <<authToken, refreshToken, tokenExpired, callerTries>>
  /\ UNCHANGED <<retryVars, cacheVars, analyses, orchestrator, discVars, patVars, rxVars, scanVars, logVars, drawerVars>>

\* the refresh getClient started settles: then / catch, finally, and the
\* callers awaiting _refreshPromise go on
SharedRefreshSettles(ok) ==
  /\ \E r \in requests :
       /\ r.fn = "getClient"
       /\ requests' = requests \ {r}
  /\ authToken' = ok
  /\ refreshToken' = ok
  /\ tokenExpired' = ~ok
  /\ refreshPromise' = FALSE
  /\ callerPc' = [c \in Callers |->
                    IF callerPc[c] = "awaitShared"
                      THEN IF ok THEN "calling" ELSE rejectedNoStatus(c)
                      ELSE callerPc[c]]
  /\ UNCHANGED callerTries
  /\ UNCHANGED <<retryVars, cacheVars, analyses, orchestrator, discVars, patVars, rxVars, scanVars, logVars, drawerVars>>

\* tryRefreshAuth(), up to its await or its return of false
tryRefreshAuth(c) ==
  IF ~refreshToken
    THEN /\ callerPc' = [callerPc EXCEPT ![c] = "failed"]
         /\ UNCHANGED requests
    ELSE /\ callerPc' = [callerPc EXCEPT ![c] = "awaitOwn"]
         /\ requests' = requests \cup {[fn |-> "tryRefreshAuth", caller |-> c]}

\* the API call of the attempt settles; on a 401 retryWithBackoff calls
\* onUnauthorized while attempts are left
ApiAnswers(c, status) ==
  /\ callerPc[c] = "calling"
  /\ IF status = 401 /\ callerTries[c] < analysisMaxRetries
       THEN tryRefreshAuth(c)
       ELSE /\ callerPc' = [callerPc EXCEPT ![c] = IF status = 200 THEN "done" ELSE "failed"]
            /\ UNCHANGED requests
  /\ UNCHANGED <<authToken, refreshToken, tokenExpired, refreshPromise, callerTries>>
  /\ UNCHANGED <<retryVars, cacheVars, analyses, orchestrator, discVars, patVars, rxVars, scanVars, logVars, drawerVars>>

\* the refresh tryRefreshAuth started settles: setAuthTokens and true, or false
OwnRefreshSettles(c, ok) ==
  /\ callerPc[c] = "awaitOwn"
  /\ [fn |-> "tryRefreshAuth", caller |-> c] \in requests
  /\ requests' = requests \ {[fn |-> "tryRefreshAuth", caller |-> c]}
  /\ IF ok
       THEN /\ authToken' = TRUE /\ refreshToken' = TRUE /\ tokenExpired' = FALSE
            /\ callerPc' = [callerPc EXCEPT ![c] = "idle"]
            /\ callerTries' = [callerTries EXCEPT ![c] = @ + 1]
       ELSE /\ callerPc' = [callerPc EXCEPT ![c] = "failed"]
            /\ UNCHANGED <<authToken, refreshToken, tokenExpired, callerTries>>
  /\ UNCHANGED refreshPromise
  /\ UNCHANGED <<retryVars, cacheVars, analyses, orchestrator, discVars, patVars, rxVars, scanVars, logVars, drawerVars>>

\* the backoff of a rejected attempt elapses: next attempt
BackoffElapses(c) ==
  /\ callerPc[c] = "backoff"
  /\ callerPc' = [callerPc EXCEPT ![c] = "idle"]
  /\ callerTries' = [callerTries EXCEPT ![c] = @ + 1]
  /\ UNCHANGED <<authToken, refreshToken, tokenExpired, refreshPromise, requests>>
  /\ UNCHANGED <<retryVars, cacheVars, analyses, orchestrator, discVars, patVars, rxVars, scanVars, logVars, drawerVars>>

\* Date.now() reaches _tokenExpiresAt
TokenExpires ==
  /\ authToken /\ ~tokenExpired
  /\ tokenExpired' = TRUE
  /\ UNCHANGED <<authToken, refreshToken, refreshPromise, requests, callerPc, callerTries>>
  /\ UNCHANGED <<retryVars, cacheVars, analyses, orchestrator, discVars, patVars, rxVars, scanVars, logVars, drawerVars>>

ApiStatuses == {200, 401}

InitAuth ==
  /\ maxRetries = 0 /\ hasSignal = FALSE /\ hasOnUnauthorized = FALSE
  /\ pc = "loop" /\ attempt = 0 /\ lastError = NoError /\ signalAborted = FALSE
  /\ timer = 0 /\ fnCalls = 0 /\ unauthCalls = 0 /\ refreshed = "none"
  /\ waits = 0 /\ waitedMs = 0 /\ history = <<>> /\ result = Pending
  /\ IdleCache
  /\ authToken = TRUE /\ refreshToken = TRUE /\ tokenExpired \in BOOLEAN
  /\ refreshPromise = FALSE /\ requests = {}
  /\ callerPc = [c \in Callers |-> "idle"]
  /\ callerTries = [c \in Callers |-> 0]
  /\ IdleRegex

NextAuth ==
  \/ \E c \in Callers : GetClient(c)
  \/ \E ok \in BOOLEAN : SharedRefreshSettles(ok)
  \/ \E c \in Callers, status \in ApiStatuses : ApiAnswers(c, status)
  \/ \E c \in Callers, ok \in BOOLEAN : OwnRefreshSettles(c, ok)
  \/ \E c \in Callers : BackoffElapses(c)
  \/ TokenExpires

SpecAuth == InitAuth /\ [][NextAuth]_vars

\* ------------------------------------------------------------------------
\* safeRegex (services/safe-regex): length limit, the two ReDoS heuristics,
\* then new RegExp(pattern, "i")
\* ------------------------------------------------------------------------
MAX_REGEX_LENGTH == 500
MaxBody == 7

Quantifiers == {"+", "*"}

\* /(\([^)]*[+*][^)]*\))[+*]/.test(s)
heuristic1(s) ==
  \E i \in 1..Len(s), j \in 1..Len(s) :
    /\ i < j /\ j < Len(s)
    /\ s[i] = "(" /\ s[j] = ")"
    /\ \A m \in (i + 1)..(j - 1) : s[m] # ")"
    /\ \E k \in (i + 1)..(j - 1) : s[k] \in Quantifiers
    /\ s[j + 1] \in Quantifiers

\* /(\([^)]*\|[^)]*\))[+*]{2,}/.test(s)
heuristic2(s) ==
  \E i \in 1..Len(s), j \in 1..Len(s) :
    /\ i < j /\ j + 1 < Len(s)
    /\ s[i] = "(" /\ s[j] = ")"
    /\ \A m \in (i + 1)..(j - 1) : s[m] # ")"
    /\ \E k \in (i + 1)..(j - 1) : s[k] = "|"
    /\ s[j + 1] \in Quantifiers /\ s[j + 2] \in Quantifiers

\* number of c among s[from..to]
count(s, c, from, to) == Cardinality({m \in from..to : s[m] = c})

\* new RegExp(s, "i") does not throw, for s over PatternChars: every
\* parenthesis is matched and every quantifier follows an atom
compilesRegExp(s) ==
  /\ \A m \in 1..Len(s) : count(s, ")", 1, m) <= count(s, "(", 1, m)
  /\ count(s, ")", 1, Len(s)) = count(s, "(", 1, Len(s))
  /\ \A m \in 1..Len(s) :
       s[m] \in Quantifiers => m > 1 /\ s[m - 1] \in {"a", ")"}

\* the characters of the pattern the engine sees in front of rxBody
padded(pad, body) == IF pad > 0 THEN <<"a">> \o body ELSE body

safeRegex(pad, body) ==
  IF pad + Len(body) = 0 \/ pad + Len(body) > MAX_REGEX_LENGTH THEN "null"
  ELSE IF heuristic1(body) \/ heuristic2(body) THEN "null"
  ELSE IF compilesRegExp(padded(pad, body)) THEN "RegExp"
  ELSE "null"

SafeRegex ==
  /\ rxResult = "pending"
  /\ rxResult' = safeRegex(rxPad, rxBody)
  /\ UNCHANGED <<rxPad, rxBody>>
  /\ UNCHANGED <<retryVars, cacheVars, analyses, orchestrator, discVars, patVars, authVars,
                 scanVars, logVars, drawerVars>>

PatternChars == {"a", "(", ")", "+", "|"}
PatternBodies == UNION {[1..n -> PatternChars] : n \in 0..MaxBody}
PatternPads == {0, MAX_REGEX_LENGTH - MaxBody + 2}

InitRegex ==
  /\ maxRetries = 0 /\ hasSignal = FALSE /\ hasOnUnauthorized = FALSE
  /\ pc = "loop" /\ attempt = 0 /\ lastError = NoError /\ signalAborted = FALSE
  /\ timer = 0 /\ fnCalls = 0 /\ unauthCalls = 0 /\ refreshed = "none"
  /\ waits = 0 /\ waitedMs = 0 /\ history = <<>> /\ result = Pending
  /\ IdleCache
  /\ authToken = TRUE /\ refreshToken = TRUE /\ tokenExpired = FALSE
  /\ refreshPromise = FALSE /\ requests = {}
  /\ callerPc = [c \in Callers |-> "idle"]
  /\ callerTries = [c \in Callers |-> 0]
  /\ rxPad \in PatternPads
  /\ rxBody \in PatternBodies
  /\ rxResult = "pending"
  /\ IdleScan

NextRegex == SafeRegex

SpecRegex == InitRegex /\ [][NextRegex]_vars

\* ------------------------------------------------------------------------
\* mergeAIPatterns on candidates whose regex safeRegex would refuse
\* ------------------------------------------------------------------------
\* np.regex of the candidates, as the characters safeRegex and new RegExp see
LongRegex == "a x 501"
patternText(regex) ==
  CASE regex = "OOM" -> [pad |-> 0, body |-> <<"O", "O", "M">>]
    [] regex = "kill" -> [pad |-> 0, body |-> <<"k", "i", "l", "l">>]
    [] regex = "(" -> [pad |-> 0, body |-> <<"(">>]
    [] regex = "(a+)+" -> [pad |-> 0, body |-> <<"(", "a", "+", ")", "+">>]
    [] regex = "(a|b)++" -> [pad |-> 0, body |-> <<"(", "a", "|", "b", ")", "+", "+">>]
    [] regex = LongRegex -> [pad |-> MAX_REGEX_LENGTH + 1, body |-> <<>>]

MergeRegexes == {"OOM", "kill", "(", "(a+)+", "(a|b)++", LongRegex}

InitMerge ==
  /\ IdleRetry
  /\ IdleCache

NextMerge ==
  \E scope \in Scopes, regex \in MergeRegexes, logLines \in {<<>>, <<1, 2, 3>>} :
    MergeAIPatterns(scope, <<NewPattern(regex, "OOM")>>, logLines)

SpecMerge == InitMerge /\ [][NextMerge]_vars

\* ------------------------------------------------------------------------
\* findSpecReferences (relationship-discovery.ts, lines 394-447) on a spec
\* that holds one string leaf "x": the spec is given by the steps that lead
\* from its root to the leaf, a step being a key of a map or an index of an
\* array.  The entries of a map and the elements of an array are scanned
\* independently of one another, so what is found for the leaf does not
\* depend on what else the spec holds.
\* ------------------------------------------------------------------------
ARRAY_SCAN_LIMIT == 10
MAP_DEPTH_LIMIT == 4
MaxSteps == 5

keyStep(name) == [k |-> "key", name |-> name, i |-> 0]
idxStep(i) == [k |-> "idx", name |-> "", i |-> i]

\* prefix.split(".").length, the prefix kept as its segments
splitLength(prefix) == IF prefix = <<>> THEN 1 ELSE Len(prefix)

\* `${prefix}[${i}]`
withIndex(prefix, i) ==
  IF prefix = <<>> THEN <<"[" \o ToString(i) \o "]">>
  ELSE SubSeq(prefix, 1, Len(prefix) - 1)
         \o <<prefix[Len(prefix)] \o "[" \o ToString(i) \o "]">>

\* the kind of a direct name reference (lines 408-418), "none" if key is none
directKind(key, prefix) ==
  CASE key \in {"secretName", "secretRef"} -> "Secret"
    [] key \in {"configMapName", "configMapRef"} -> "ConfigMap"
    [] key = "serviceAccountName" -> "ServiceAccount"
    [] key = "serviceName" /\ (\A n \in 1..Len(prefix) : prefix[n] # "tls") -> "Service"
    [] key = "volumeName" -> "PersistentVolume"
    [] OTHER -> "none"

\* key.endsWith("Ref") || key.endsWith("ref") || key === "scaleTargetRef"
isRefKey(key) ==
  key \in {"secretRef", "configMapRef", "issuerRef", "secretStoreRef", "scaleTargetRef"}

\* obj.kind || key.replace(/Ref$/i, ""), the reference object holding only name
refKind(key) ==
  CASE key = "secretRef" -> "secret"
    [] key = "configMapRef" -> "configMap"
    [] key = "issuerRef" -> "issuer"
    [] key = "secretStoreRef" -> "secretStore"
    [] key = "scaleTargetRef" -> "scaleTarget"

\* An array is scanned when it is the spec argument itself (lines 397-402).
\* An array that is the value of a key of a map is neither a string (line 408)
\* nor a non-array object (line 423): nothing is done with it.
RECURSIVE findSpecReferences(_, _)
findSpecReferences(path, prefix) ==
  IF path = <<>> THEN <<>>
  ELSE IF Head(path).k = "idx"
    THEN IF Head(path).i < ARRAY_SCAN_LIMIT
           THEN findSpecReferences(Tail(path), withIndex(prefix, Head(path).i))
           ELSE <<>>
  ELSE LET key == Head(path).name
           value == Tail(path)
           field == Append(prefix, key)
       IN IF value = <<>>
            THEN IF directKind(key, prefix) # "none"
                   THEN <<[field |-> field, kind |-> directKind(key, prefix), name |-> "x"]>>
                   ELSE <<>>
          ELSE IF Head(value).k = "idx"
            THEN <<>>
          ELSE IF value = <<keyStep("name")>> /\ isRefKey(key)
            THEN <<[field |-> field, kind |-> refKind(key), name |-> "x"]>>
          ELSE IF splitLength(prefix) < MAP_DEPTH_LIMIT
            THEN findSpecReferences(value, field)
          ELSE <<>>

FindSpecReferences ==
  /\ ~scanResult.done
  /\ scanResult' = [done |-> TRUE, refs |-> findSpecReferences(scanPath, <<>>)]
  /\ UNCHANGED scanPath
  /\ UNCHANGED <<retryVars, cacheVars, analyses, orchestrator, discVars, patVars, authVars,
                 rxVars, logVars, drawerVars>>

ScanKeys == {"template", "secretName", "issuerRef", "name"}
ScanIndexes == {0, ARRAY_SCAN_LIMIT - 1, ARRAY_SCAN_LIMIT}
ScanSteps == {keyStep(name) : name \in ScanKeys} \cup {idxStep(i) : i \in ScanIndexes}
ScanPaths == UNION {[1..n -> ScanSteps] : n \in 1..MaxSteps}

InitScan ==
  /\ maxRetries = 0 /\ hasSignal = FALSE /\ hasOnUnauthorized = FALSE
  /\ pc = "loop" /\ attempt = 0 /\ lastError = NoError /\ signalAborted = FALSE
  /\ timer = 0 /\ fnCalls = 0 /\ unauthCalls = 0 /\ refreshed = "none"
  /\ waits = 0 /\ waitedMs = 0 /\ history = <<>> /\ result = Pending
  /\ IdleCache
  /\ authToken = TRUE /\ refreshToken = TRUE /\ tokenExpired = FALSE
  /\ refreshPromise = FALSE /\ requests = {}
  /\ callerPc = [c \in Callers |-> "idle"]
  /\ callerTries = [c \in Callers |-> 0]
  /\ rxPad = 0 /\ rxBody = <<>> /\ rxResult = "pending"
  /\ scanPath \in ScanPaths
  /\ scanResult = NoScan
  /\ IdleStores

NextScan == FindSpecReferences

SpecScan == InitScan /\ [][NextScan]_vars

\* ------------------------------------------------------------------------
\* LogAnalysisStore (stores/log-analysis-store.ts).  isClaudeAvailable() is
\* true.  A call of analyze is known by its position in logCalls.
\* ------------------------------------------------------------------------
MaxLogCalls == 3

otherVarsOfLog ==
  <<retryVars, cacheVars, analyses, orchestrator, discVars, patVars, authVars, rxVars,
    scanVars, drawerVars>>

\* ctrl.abort() for the controllers of the calls in ids
abortCalls(calls, ids) ==
  [c \in 1..Len(calls) |-> IF c \in ids THEN [calls[c] EXCEPT !.aborted = TRUE] ELSE calls[c]]

registered == {abortControllers[key] : key \in LogKeys} \ {NoCall}

\* analyze(namespace, podName, container, force), up to its await (lines 52-73)
LogAnalyze(key, force) ==
  /\ Len(logCalls) < MaxLogCalls
  /\ IF ~force /\ lastAnalysisRecent[key]
       THEN UNCHANGED logVars
       ELSE /\ lastAnalysisRecent' = [lastAnalysisRecent EXCEPT ![key] = TRUE]
            /\ logCalls' = Append(abortCalls(logCalls, {abortControllers[key]}),
                                  [key |-> key, st |-> "inflight", aborted |-> FALSE,
                                   epoch |-> logEpoch])
            /\ abortControllers' = [abortControllers EXCEPT ![key] = Len(logCalls) + 1]
            /\ logAnalyses' = [logAnalyses EXCEPT
                                 ![key] = [status |-> "loading", by |-> Len(logCalls) + 1]]
            /\ UNCHANGED logEpoch
  /\ UNCHANGED otherVarsOfLog

\* analyzeLogsFn of call c settles (lines 73-84): it resolves ("success"),
\* rejects with an error other than AbortError ("error") or, the signal
\* having been aborted, rejects with AbortError ("AbortError")
LogSettles(c, outcome) ==
  /\ c \in 1..Len(logCalls)
  /\ logCalls[c].st = "inflight"
  /\ outcome = "AbortError" => logCalls[c].aborted
  /\ logCalls' = [logCalls EXCEPT ![c].st = "settled"]
  /\ logAnalyses' = IF outcome = "AbortError" THEN logAnalyses
                    ELSE [logAnalyses EXCEPT
                            ![logCalls[c].key] = [status |-> outcome, by |-> c]]
  /\ abortControllers' = [abortControllers EXCEPT ![logCalls[c].key] = NoCall]
  /\ UNCHANGED <<lastAnalysisRecent, logEpoch>>
  /\ UNCHANGED otherVarsOfLog

\* abort(namespace, podName, container) (lines 31-35)
LogAbort(key) ==
  /\ logCalls' = abortCalls(logCalls, {abortControllers[key]})
  /\ abortControllers' = [abortControllers EXCEPT ![key] = NoCall]
  /\ UNCHANGED <<logAnalyses, lastAnalysisRecent, logEpoch>>
  /\ UNCHANGED otherVarsOfLog

\* abortAll() (lines 38-43)
LogAbortAll ==
  /\ logCalls' = abortCalls(logCalls, registered)
  /\ abortControllers' = [key \in LogKeys |-> NoCall]
  /\ UNCHANGED <<logAnalyses, lastAnalysisRecent, logEpoch>>
  /\ UNCHANGED otherVarsOfLog

\* clearAll() (lines 46-50), as onDeactivate calls it
LogClearAll ==
  /\ logEpoch < MaxLogCalls
  /\ logCalls' = abortCalls(logCalls, registered)
  /\ abortControllers' = [key \in LogKeys |-> NoCall]
  /\ logAnalyses' = [key \in LogKeys |-> IdleState]
  /\ lastAnalysisRecent' = [key \in LogKeys |-> FALSE]
  /\ logEpoch' = logEpoch + 1
  /\ UNCHANGED otherVarsOfLog

\* two seconds pass since the last start of an analysis of key
LogTimePasses(key) ==
  /\ lastAnalysisRecent[key]
  /\ lastAnalysisRecent' = [lastAnalysisRecent EXCEPT ![key] = FALSE]
  /\ UNCHANGED <<logAnalyses, abortControllers, logCalls, logEpoch>>
  /\ UNCHANGED otherVarsOfLog

LogOutcomes == {"success", "error", "AbortError"}

InitLog ==
  /\ IdleRetry
  /\ IdleCache

NextLog ==
  \/ \E key \in LogKeys, force \in BOOLEAN : LogAnalyze(key, force)
  \/ \E c \in 1..MaxLogCalls, outcome \in LogOutcomes : LogSettles(c, outcome)
  \/ \E key \in LogKeys : LogAbort(key)
  \/ LogAbortAll
  \/ LogClearAll
  \/ \E key \in LogKeys : LogTimePasses(key)

SpecLog == InitLog /\ [][NextLog]_vars

\* ------------------------------------------------------------------------
\* AIDrawerStore (open, openForLogAnalysis, close, analyze).  A call of
\* analyze is known by its position in drawerCalls; analysisCache holds the
\* objects analyzeResource has a cached analysis for.
\* ------------------------------------------------------------------------
MaxDrawerCalls == 2
DrawerObjects == {"X", "Y"}

otherVarsOfDrawer ==
  <<retryVars, cacheVars, analyses, orchestrator, discVars, patVars, authVars, rxVars,
    scanVars, logVars>>

\* open(object, kind)
DrawerOpen(o) ==
  /\ targetObject' = o
  /\ isOpen' = TRUE
  /\ analysisState' = IF o \in analysisCache THEN [status |-> "success", for |-> o]
                      ELSE NoAnalysis
  /\ UNCHANGED <<abortController, lastAnalyzeRecent, drawerCalls, analysisCache>>
  /\ UNCHANGED otherVarsOfDrawer

\* openForLogAnalysis(pod, namespace, podName, container)
DrawerOpenForLogAnalysis(o) ==
  /\ targetObject' = o
  /\ isOpen' = TRUE
  /\ analysisState' = NoAnalysis
  /\ UNCHANGED <<abortController, lastAnalyzeRecent, drawerCalls, analysisCache>>
  /\ UNCHANGED otherVarsOfDrawer

\* close()
DrawerClose ==
  /\ isOpen
  /\ isOpen' = FALSE
  /\ drawerCalls' = abortCalls(drawerCalls, {abortController})
  /\ abortController' = NoCall
  /\ UNCHANGED <<targetObject, analysisState, lastAnalyzeRecent, analysisCache>>
  /\ UNCHANGED otherVarsOfDrawer

\* analyze(force), up to its await
DrawerAnalyze(force) ==
  /\ Len(drawerCalls) < MaxDrawerCalls
  /\ IF targetObject = "none" \/ (~force /\ lastAnalyzeRecent)
       THEN UNCHANGED drawerVars
       ELSE /\ lastAnalyzeRecent' = TRUE
            /\ analysisCache' = IF force THEN analysisCache \ {targetObject}
                                ELSE analysisCache
            /\ drawerCalls' = Append(abortCalls(drawerCalls, {abortController}),
                                     [obj |-> targetObject, st |-> "inflight",
                                      aborted |-> FALSE])
            /\ abortController' = Len(drawerCalls) + 1
            /\ analysisState' = [status |-> "loading", for |-> targetObject]
            /\ UNCHANGED <<isOpen, targetObject>>
  /\ UNCHANGED otherVarsOfDrawer

\* analyzeResource of call c settles: the guard on abortController, the new
\* state, the finally block; a resolved analysis has been cached
DrawerSettles(c, outcome) ==
  /\ c \in 1..Len(drawerCalls)
  /\ drawerCalls[c].st = "inflight"
  /\ outcome = "AbortError" => drawerCalls[c].aborted
  /\ drawerCalls' = [drawerCalls EXCEPT ![c].st = "settled"]
  /\ analysisCache' = IF outcome = "success" THEN analysisCache \cup {drawerCalls[c].obj}
                      ELSE analysisCache
  /\ analysisState' = IF outcome # "AbortError" /\ abortController = c
                        THEN [status |-> outcome, for |-> drawerCalls[c].obj]
                        ELSE analysisState
  /\ abortController' = IF abortController = c THEN NoCall ELSE abortController
  /\ UNCHANGED <<isOpen, targetObject, lastAnalyzeRecent>>
  /\ UNCHANGED otherVarsOfDrawer

\* two seconds pass since the last start of an analysis
DrawerTimePasses ==
  /\ lastAnalyzeRecent
  /\ lastAnalyzeRecent' = FALSE
  /\ UNCHANGED <<isOpen, targetObject, analysisState, abortController, drawerCalls,
                 analysisCache>>
  /\ UNCHANGED otherVarsOfDrawer

InitDrawer ==
  /\ IdleRetry
  /\ IdleCache

NextDrawer ==
  \/ \E o \in DrawerObjects : DrawerOpen(o)
  \/ \E o \in DrawerObjects : DrawerOpenForLogAnalysis(o)
  \/ DrawerClose
  \/ \E force \in BOOLEAN : DrawerAnalyze(force)
  \/ \E c \in 1..MaxDrawerCalls, outcome \in LogOutcomes : DrawerSettles(c, outcome)
  \/ DrawerTimePasses

SpecDrawer == InitDrawer /\ [][NextDrawer]_vars

TypeOKCache ==
  /\ Len(cmap) <= MaxSizeBound + 1
  /\ \A i, j \in 1..Len(cmap) : cmap[i].sk = cmap[j].sk => i = j

\* ------------------------------------------------------------------------
\* Properties of retryWithBackoff (checked under SpecRetry)
\* ------------------------------------------------------------------------
Last(s) == s[Len(s)]

\* The failures the retry coordinator retries with backoff: status 429, 503
\* or 529, or a failure without status code (a network-level failure, not the
\* aborted condition).
RetryableFailure(e) ==
  /\ e.name # "AbortError"
  /\ e.status \in {429, 503, 529, NoStatus}

\* C1: with an un-aborted signal, after k <= maxRetries failures that are all
\* retryable (429/503/529 or no status code) the call has not given up, fn
\* has been invoked at most k+1 times, and once fn succeeds the call resolves
\* with the success value after exactly k+1 invocations.
C1_RetryThenSucceed ==
  (/\ ~signalAborted
   /\ Len(history) <= maxRetries
   /\ \A i \in 1..Len(history) : RetryableFailure(history[i]))
  => /\ pc # "rejected"
     /\ fnCalls <= Len(history) + 1
     /\ (pc \in {"inflight", "resolved"} => fnCalls = Len(history) + 1)
     /\ (pc = "resolved" => result = Resolved)

\* 503, 503, success with maxRetries = 2: three invocations
C1_Witness ==
  /\ pc = "resolved" /\ maxRetries = 2 /\ ~signalAborted
  /\ Len(history) = 2 /\ history[1].status = 503 /\ history[2].status = 503
  /\ fnCalls = 3 /\ result = Resolved

\* C2: a failure with status 400 or 403, or with any status other than 401,
\* 429, 503, 529, ends the call at once: it is the last failure, the call is
\* rejected with that very error, fn is not invoked again (exactly once when
\* it is the first failure), and it causes neither a backoff wait nor an
\* onUnauthorized call.
C2_FailFastStatuses == HttpStatuses \ {401, 429, 503, 529}
C4_NoAttemptWhenAborted ==
  [][ /\ (fnCalls' # fnCalls => ~(hasSignal /\ signalAborted))
      /\ (pc = "loop" /\ hasSignal /\ signalAborted)
         => /\ pc' = "rejected"
            /\ result'.kind = "error" /\ result'.err.name = "AbortError"
            /\ fnCalls' = fnCalls
      /\ pc # "rejected"
    ]_vars

\* aborted while the second attempt's predecessor was being handled: the
\* check before a later attempt rejects
C4_Witness ==
  /\ pc = "rejected" /\ signalAborted /\ fnCalls = 1 /\ attempt = 1
  /\ result.err.name = "AbortError" /\ lastError.name = "AbortError"

\* C5: an abort of the signal during a backoff wait rejects the call with
\* AbortError in the same step: no more of the delay is waited, fn is not
\* invoked again.
C5_AbortDuringBackoff ==
  [][ /\ (pc = "backoff" /\ ~signalAborted /\ signalAborted')
         => /\ pc' = "rejected"
            /\ result' = Rejected(AbortError(attempt))
            /\ fnCalls' = fnCalls
            /\ waitedMs' = waitedMs
            /\ timer' = 0
      /\ (pc = "rejected" => fnCalls' = fnCalls /\ waitedMs' = waitedMs)
    ]_vars

\* aborted 4000 ms into the second (6000 ms) wait... or earlier
C5_Witness ==
  /\ pc = "rejected" /\ signalAborted /\ waits = 2
  /\ waitedMs < delay(0) + delay(1)
  /\ result.err.name = "AbortError" /\ lastError.name = "Error"

\* C6: fn is never invoked more than maxRetries+1 times; if the signal is
\* never aborted and all maxRetries+1 attempts failed with a retryable error,
\* the call is rejected with the error of the last attempt.
C6_Exhaustion ==
  /\ fnCalls <= maxRetries + 1
  /\ (/\ ~signalAborted
      /\ Len(history) = maxRetries + 1
      /\ \A i \in 1..Len(history) : RetryableFailure(history[i]))
     => /\ pc = "rejected"
        /\ fnCalls = maxRetries + 1
        /\ result = Rejected(history[maxRetries + 1])
        /\ result.err.at = maxRetries

\* 503, 429, 529 with maxRetries = 2: rejected with the 529
C6_Witness ==
  /\ maxRetries = 2 /\ ~signalAborted /\ pc = "rejected" /\ fnCalls = 3
  /\ Len(history) = 3 /\ history[1].status = 503 /\ history[2].status = 429
  /\ history[3].status = 529 /\ result.err.status = 529
\* ------------------------------------------------------------------------
\* Properties of BoundedCache (checked under SpecCache)
\* ------------------------------------------------------------------------
\* C7: get(key) returns an entry iff one is stored under the active cluster's
\* key with now - timestamp <= the TTL of that moment, and then returns its
\* data and timestamp; a get that finds the entry expired removes it and
\* nothing else; no entry is removed by the passing of time, by a change of
\* the TTL or by a cluster switch.
C7_GetVisibility ==
  [][ /\ \A key \in Keys :
           CacheGet(key) =>
             /\ ret'.hit <=> (\E i \in 1..Len(cmap) :
                                /\ cmap[i].sk = <<activeCluster, key>>
                                /\ now - cmap[i].timestamp <= ttl)
             /\ ret'.hit => (\E i \in 1..Len(cmap) :
                                /\ cmap[i].sk = <<activeCluster, key>>
                                /\ ret'.data = cmap[i].data
                                /\ ret'.timestamp = cmap[i].timestamp)
             /\ cmap' = SelectSeq(cmap, LAMBDA e :
                          e.sk # <<activeCluster, key>> \/ now - e.timestamp <= ttl)
      /\ (ClockTick \/ (\E t \in 0..MaxTtl : ReloadConfig(t))
            \/ (\E c \in Clusters : SwitchCluster(c)))
         => cmap' = cmap
    ]_vars

\* a hit on an entry whose age is exactly the TTL, with other entries around
C7_Witness ==
  /\ ret.hit /\ ttl = 1 /\ now - ret.timestamp = ttl /\ Len(cmap) >= 2

\* C8: with maxSize >= 1 the map never holds more than maxSize entries; a set
\* of a new key at capacity removes exactly the first-inserted entry and
\* appends the new one; a read does not change the order.
C8_Capacity ==
  /\ [](maxSize >= 1 => Len(cmap) <= maxSize)
  /\ [][ /\ \A key \in Keys :
              (/\ CacheSet(key)
               /\ maxSize >= 1
               /\ Len(cmap) = maxSize
               /\ ~MapHas(cmap, <<activeCluster, key>>))
              => cmap' = Append(Tail(cmap),
                           [sk |-> <<activeCluster, key>>, timestamp |-> now,
                            data |-> activeCluster])
         /\ \A key \in Keys : (CacheGet(key) /\ ret'.hit) => cmap' = cmap
       ]_vars

\* k1, k2, k3 inserted into a cache of maxSize 2: k2 and k3 remain
C8_Witness ==
  /\ maxSize = 2 /\ Len(cmap) = 2 /\ now = 0
  /\ cmap[1].sk = <<"A", "k2">> /\ cmap[2].sk = <<"A", "k3">>

\* ------------------------------------------------------------------------
\* Properties of the cached analyses (checked under SpecAnalyze)
\* ------------------------------------------------------------------------
\* C9: a cache lookup never returns data that was obtained from a cluster
\* other than the one active at the lookup.
C9_NoCrossClusterData == ret.hit => ret.data = activeCluster

\* C10: discoverRelationships never rejects, whatever the object and however
\* the cluster API calls fail; when it returns, all four strategies have
\* settled, a failed strategy contributes the empty list to its own category,
\* and every other category holds exactly what its own strategy produced.
C10_categoryOf(st, value) == IF st = "failed" THEN <<>> ELSE value

C10_FaultIsolation ==
  /\ discPc # "rejected"
  /\ discPc = "returned" =>
       /\ \A st \in {ownPc, chPc, selPc, refPc} : st \in {"done", "failed"}
       /\ discResult.owners = C10_categoryOf(ownPc, owners)
       /\ discResult.children = C10_categoryOf(chPc, children)
       /\ discResult.selectorTargets = C10_categoryOf(selPc, targets)
       /\ discResult.specReferences = C10_categoryOf(refPc, refs)

C10_Witness ==
  /\ discPc = "returned"
  /\ selPc = "failed"
  /\ targets # <<>>
  /\ discResult.selectorTargets = <<>>
  /\ discResult.owners # <<>>
  /\ discResult.children # <<>>
  /\ discResult.specReferences # <<>>

\* C11: an object without ownerReferences yields no owners; for a chain of n
\* owners with one reference per level, all fetched, the finished walk holds
\* exactly min(n, 5) entries in walk order, the one of depth 0 tagged
\* "direct owner" and the one of depth d >= 1 tagged "owner (depth d+1)"; no
\* entry is of a depth beyond the fifth level, cyclic references included.
C11_isChain ==
  /\ object.isObject
  /\ \A l \in 1..Len(object.ownerRefs) : object.ownerRefs[l] = 1

C11_chainLength ==
  IF object.cyclic /\ Len(object.ownerRefs) > 0 THEN 5
  ELSE Min(Len(object.ownerRefs), 5)

C11_OwnerWalk ==
  /\ \A i \in 1..Len(owners) : owners[i].depth < 5
  /\ (ownPc = "done" /\ refsOf(0) = 0) => owners = <<>>
  /\ (ownPc = "done" /\ C11_isChain /\ \A i \in 1..Len(owners) : owners[i].fetched) =>
       /\ Len(owners) = C11_chainLength
       /\ \A i \in 1..Len(owners) :
            /\ owners[i].depth = i - 1
            /\ owners[i].level = i - 1
            /\ owners[i].relationship =
                 (IF i = 1 THEN <<"direct owner">> ELSE <<"owner (depth", i, ")">>)

C11_Witness ==
  /\ ownPc = "done"
  /\ C11_isChain
  /\ object.cyclic
  /\ Len(object.ownerRefs) = 2
  /\ Len(owners) = 5
  /\ \A i \in 1..Len(owners) : owners[i].fetched
  /\ discPc = "returned"

\* C12: for one object the child search issues at most ceil(20/5) = 4
\* built-in batches, each of at most 5 parallel list requests, and at most 10
\* list requests in the supplemental pass over the object's own API group.
C12_RequestBudget ==
  /\ chPc = "batch" => chBatch + 1 <= 4 /\ Cardinality(chPending) <= 5
  /\ chPc = "list" => chIdx <= 10

\* C13: the child search keeps a listed item if and only if its
\* ownerReferences name the uid of the object, and tags it "child (owned)";
\* an object without uid yields no children and issues no list request; an
\* object with a uid, no owners, no selector and no spec references, and three
\* Pods owned by the uid in its namespace, yields owners = [], exactly those
\* three Pods as children, selectorTargets = [] and specReferences = [].
C13_searched ==
  (1..CHILD_SEARCH_PATHS_length) \cup
  (IF object.crdGroup
     THEN {CHILD_SEARCH_PATHS_length + r : r \in 1..object.groupResources}
     ELSE {})

C13_childIds == {children[i].id : i \in 1..Len(children)}

C13_OwnedChildren ==
  /\ \A i \in 1..Len(children) :
       /\ children[i].relationship = "child (owned)"
       /\ \E k \in 1..Len(object.items) :
            /\ object.items[k].id = children[i].id
            /\ "U" \in object.items[k].ownerUids
       /\ \A j \in 1..Len(children) : children[j].id = children[i].id => j = i
  /\ chPc = "done" =>
       \A k \in 1..Len(object.items) :
         ( /\ object.uid
           /\ "U" \in object.items[k].ownerUids
           /\ object.items[k].path \in C13_searched \ chDropped )
         => object.items[k].id \in C13_childIds
  /\ ~object.uid => children = <<>> /\ chPc \in {"idle", "done", "failed"}
  /\ (discPc = "returned" /\ object = PodsObject /\ chDropped = {}) =>
       /\ discResult.owners = <<>>
       /\ Len(discResult.children) = 3
       /\ {discResult.children[i].id : i \in 1..3} = {1, 3, 5}
       /\ \A i \in 1..3 : discResult.children[i].relationship = "child (owned)"
       /\ discResult.selectorTargets = <<>>
       /\ discResult.specReferences = <<>>

C13_Witness ==
  /\ discPc = "returned"
  /\ object = PodsObject
  /\ chDropped = {}
  /\ Len(discResult.children) = 3

\* C14: from an empty store, after any merges and removals no two patterns of
\* a scope have the same regex; a candidate whose regex an entry of the scope
\* already has adds nothing, adds exactly 1 to that entry's hitCount and
\* refreshes its label and description; the same candidate merged twice into
\* an empty scope leaves one pattern with hitCount 2.
C14_uniqueRegex(store) ==
  \A scope \in DOMAIN store :
    \A i, j \in 1..Len(store[scope]) :
      store[scope][i].regex = store[scope][j].regex => i = j

C14_exactStep(scope, np) ==
  LET old == scopeOf(scope)
      new == scopes'[scope]
      same == {i \in 1..Len(old) : old[i].regex = np.regex}
  IN same # {} =>
       /\ Len(new) = Len(old)
       /\ \A i \in 1..Len(old) :
            new[i] = IF i \in same
                       THEN [old[i] EXCEPT !.hitCount = old[i].hitCount + 1,
                                           !.label = np.label,
                                           !.description = np.description]
                       ELSE old[i]

C14_twiceStep(scope, np) ==
  (scopeOf(scope) = <<>> /\ np.regex # "(") =>
    /\ Len(scopes'[scope]) = 1
    /\ scopes'[scope][1].regex = np.regex
    /\ scopes'[scope][1].hitCount = 2

C14_UniqueRegex ==
  [][ /\ C14_uniqueRegex(scopes')
      /\ \A scope \in Scopes, np \in Candidates, logLines \in LogLineLists :
           /\ (issued' # issued /\ Len(took') = 1
                 /\ MergeAIPatterns(scope, <<np>>, logLines)) => C14_exactStep(scope, np)
           /\ (issued' # issued /\ Len(took') = 2
                 /\ MergeAIPatterns(scope, <<np, np>>, logLines)) => C14_twiceStep(scope, np)
    ]_vars

C14_Witness ==
  /\ took = <<"pushed", "exact">>
  /\ DOMAIN scopes = Scopes
  /\ Len(scopes["global"]) = 1
  /\ scopes["global"][1].regex = "OOM"
  /\ scopes["global"][1].hitCount = 2
  /\ scopes["global"][1].label = "out of memory"
  /\ \E i \in 1..Len(scopes["ns/app"]) : scopes["ns/app"][i].regex = "OOM"

\* C15: with recent log lines, a candidate with a new regex that matches at
\* least one line is discarded exactly when some pattern of the scope matches
\* at least 80% of the lines the candidate matches: the first such pattern in
\* scope order gains 1 hit, nothing else changes and nothing is added;
\* otherwise, also when it matches no line or no lines are given, the
\* candidate is appended with hitCount 1.
C15_matched(logLines, np) ==
  {k \in 1..Len(logLines) : logLines[k] \in matchedLines(np.regex)}

C15_near(logLines, np, e) ==
  100 * Cardinality({k \in C15_matched(logLines, np) :
                       logLines[k] \in matchedLines(e.regex)})
    >= 80 * Cardinality(C15_matched(logLines, np))

C15_step(scope, np, logLines) ==
  LET old == scopeOf(scope)
      new == scopes'[scope]
      near == {i \in 1..Len(old) : C15_near(logLines, np, old[i])}
  IN (np.regex # "(" /\ \A i \in 1..Len(old) : old[i].regex # np.regex) =>
       IF C15_matched(logLines, np) # {} /\ near # {}
         THEN /\ Len(new) = Len(old)
              /\ \A i \in 1..Len(old) :
                   new[i] = IF i \in near /\ \A j \in near : i <= j
                              THEN [old[i] EXCEPT !.hitCount = old[i].hitCount + 1]
                              ELSE old[i]
         ELSE /\ Len(new) = Len(old) + 1
              /\ \A i \in 1..Len(old) : new[i] = old[i]
              /\ new[Len(new)].regex = np.regex
              /\ new[Len(new)].hitCount = 1

C16_lexLeq(e, k) ==
  \/ e.hitCount < k.hitCount
  \/ e.hitCount = k.hitCount /\ e.discoveredAt <= k.discoveredAt

C16_step(newPatterns) ==
  \E before \in {mergeAll([existing |-> scopeOf("global"), ids |-> nextId,
                           took |-> <<>>], newPatterns, <<>>, patNow).existing} :
    LET after == scopes'["global"]
        kept == {after[i].id : i \in 1..Len(after)}
        evicted == {i \in 1..Len(before) : before[i].id \notin kept}
    IN /\ Len(after) <= 50
       /\ Len(after) = Min(Len(before), 50)
       /\ \A i \in 1..Len(after) : \E j \in 1..Len(before) : after[i] = before[j]
       /\ \A i \in evicted : \A j \in 1..Len(after) : C16_lexLeq(before[i], after[j])

C16_Cap ==
  [][ \A newPatterns \in CapCandidateLists :
        (issued' # issued /\ Len(took') = Len(newPatterns)
           /\ MergeAIPatterns("global", newPatterns, <<>>))
          => C16_step(newPatterns)
    ]_vars

C16_Witness ==
  /\ took = <<"pushed", "pushed">>
  /\ issued = 1
  /\ Len(scopes["global"]) = 50
  /\ \E i \in 1..50 : scopes["global"][i].regex = "n1"
  /\ \E i \in 1..50 : scopes["global"][i].hitCount = 3
  /\ \A i \in 1..50 : scopes["global"][i].regex # "p48"

\* C17: the writes of the pattern store are performed one at a time in the
\* order in which the mergeAIPatterns / removePattern calls asked for them: the
\* writes performed so far, followed by those still queued, are the calls in
\* issue order, whether or not a write failed; and a call returns with its
\* write queued, not performed.
C17_inIssueOrder(jobs, n) == jobs = [k \in 1..n |-> k]

C17_SaveOrder ==
  [][ /\ C17_inIssueOrder([i \in 1..Len(writeLog') |-> writeLog'[i].job] \o writeQueue',
                          issued')
      /\ issued' # issued =>
           /\ file' = file
           /\ writeLog' = writeLog
           /\ writeQueue' = Append(writeQueue, issued')
      /\ writeLog' # writeLog =>
           /\ Len(writeLog') = Len(writeLog) + 1
           /\ writeQueue # <<>>
           /\ writeLog'[Len(writeLog')].job = writeQueue[1]
           /\ (writeLog'[Len(writeLog')].outcome = "ok" => file'.scopes = scopes)
           /\ (writeLog'[Len(writeLog')].outcome # "ok" => file' = file)
    ]_vars

C17_Witness ==
  /\ Len(writeLog) = 2
  /\ writeLog[1] = [job |-> 1, outcome |-> "write"]
  /\ writeLog[2] = [job |-> 2, outcome |-> "ok"]
  /\ file.scopes = scopes
  /\ scopes # <<>>
  /\ writeQueue = <<>>

\* C18: at most one credential refresh request is in flight at any time,
\* whether it was started by getClient or by tryRefreshAuth.
C18_SingleRefresh == Cardinality(requests) <= 1

\* the group opened at i is closed at j
C19_group(s, i, j) ==
  /\ i < j /\ s[i] = "(" /\ s[j] = ")"
  /\ count(s, "(", i, j) = count(s, ")", i, j)
  /\ \A m \in i..(j - 1) : count(s, "(", i, m) > count(s, ")", i, m)

\* some parenthesized group of s that contains a + or * is immediately
\* followed by + or *
C19_requantified(s) ==
  \E i \in 1..Len(s), j \in 1..Len(s) :
    /\ C19_group(s, i, j)
    /\ \E k \in (i + 1)..(j - 1) : s[k] \in Quantifiers
    /\ j < Len(s) /\ s[j + 1] \in Quantifiers

\* C19: safeRegex rejects every pattern in which a parenthesized group that
\* contains a + or * quantifier is itself immediately followed by + or *.
C19_RejectsRequantified ==
  (rxResult # "pending" /\ C19_requantified(rxBody)) => rxResult = "null"

\* C20: when the first owner at depth d cannot be fetched, the owner walk
\* stops at that depth: no entry with a depth greater than d is in owners.
C20_StopsWhereFetchFails ==
  \A i \in 1..Len(owners), j \in 1..Len(owners) :
    (owners[i].idx = 1 /\ ~owners[i].fetched) => owners[j].depth <= owners[i].depth

\* C21: within one retryWithBackoff call with maxRetries = 2 and an
\* onUnauthorized callback, onUnauthorized is invoked at most once.
C21_OneRefreshCycle ==
  (maxRetries = analysisMaxRetries /\ hasOnUnauthorized) => unauthCalls <= 1

\* C22: a malformed backend response is not retried: after the first attempt
\* of a call with maxRetries = 2 rejected with the "unexpected response"
\* error there is no backoff wait and no second invocation of fn.
C22_MalformedNotRetried ==
  (maxRetries = analysisMaxRetries /\ history # <<>> /\ history[1] = MalformedResponse(0))
    => (fnCalls = 1 /\ waits = 0)

\* C23: a candidate whose regex fails safe compilation (safeRegex gives null)
\* is never stored in any scope by mergeAIPatterns.
C23_UnsafeNeverStored ==
  \A scope \in DOMAIN scopes : \A i \in 1..Len(scopes[scope]) :
    safeRegex(patternText(scopes[scope][i].regex).pad,
              patternText(scopes[scope][i].regex).body) = "RegExp"

\* C24: when the timer of a child-search batch fires before the batch has
\* settled, children is left as it was (no item of that batch is added, also
\* not of requests that had completed), the batch is not reissued and the
\* search goes on with the next batch (after the last batch: with the
\* group pass or the end); no child ever comes from a path of a batch whose
\* timer fired.
C24_timedOutPaths == UNION {batchPaths(b) : b \in chTimeouts}

C24_step ==
  (chPc = "batch" /\ chTimeouts' # chTimeouts) =>
    /\ chTimeouts' = chTimeouts \cup {chBatch}
    /\ chBatch \notin chTimeouts
    /\ children' = children
    /\ IF (chBatch + 1) * batchSize < CHILD_SEARCH_PATHS_length
         THEN /\ chPc' = "batch"
              /\ chBatch' = chBatch + 1
              /\ chPending' = batchPaths(chBatch + 1)
              /\ chOk' = {}
         ELSE /\ chPc' = (IF object.crdGroup THEN "discover" ELSE "done")
              /\ chPending' = {}

C24_BatchTimeout ==
  /\ [](\A i \in 1..Len(children) : children[i].path \notin C24_timedOutPaths)
  /\ [][C24_step]_vars

\* the timer of the first batch, whose Pod list holds owned items, fired: the
\* search is in the second batch and there is no child
C24_Witness ==
  /\ object = PodsObject
  /\ chTimeouts = {0}
  /\ 1 \in chDropped
  /\ chPc = "batch" /\ chBatch = 1
  /\ children = <<>>

\* the spec holds an array-valued field of a map on the way to its leaf
C25_inArrayField(path) ==
  \E n \in 1..(Len(path) - 1) : path[n].k = "key" /\ path[n + 1].k = "idx"

C25_keys(path) == Cardinality({n \in 1..Len(path) : path[n].k = "key"})

\* C25: a reference key (here secretName with a string value) located inside
\* one of the first 10 elements of an array-valued field of the spec, within
\* the map depth bound, is reported as a SpecRef.
C25_ArrayElementsScanned ==
  ( /\ scanResult.done
    /\ scanPath[Len(scanPath)] = keyStep("secretName")
    /\ C25_inArrayField(scanPath)
    /\ \A n \in 1..Len(scanPath) : scanPath[n].k = "idx" => scanPath[n].i < ARRAY_SCAN_LIMIT
    /\ C25_keys(scanPath) <= MAP_DEPTH_LIMIT )
  => scanResult.refs # <<>>

\* C26: discoverRelationships eventually returns a result, also when some
\* request to the cluster is never answered.
C26_EventuallyReturns == <>(discPc = "returned")

\* C27: in LogAnalysisStore every analysis that is in flight and has not been
\* aborted has its AbortController registered in abortControllers under its
\* key.
C27_InFlightRegistered ==
  \A c \in 1..Len(logCalls) :
    (logCalls[c].st = "inflight" /\ ~logCalls[c].aborted)
      => abortControllers[logCalls[c].key] = c

\* C28: in AIDrawerStore, whenever analysisState is success or error, that
\* state was produced for the current targetObject.
C28_StateForTarget ==
  analysisState.status \in {"success", "error"} => analysisState.for = targetObject

\* C29: BoundedCache.set(key, data) on a key already stored under the active
\* cluster leaves every other key's entry in the map and the number of
\* entries unchanged.
C29_step ==
  \A key \in Keys :
    (MapHas(cmap, scopedKey(key)) /\ CacheSet(key)) =>
      /\ Len(cmap') = Len(cmap)
      /\ \A i \in 1..Len(cmap) :
           cmap[i].sk # scopedKey(key) => \E j \in 1..Len(cmap') : cmap'[j] = cmap[i]

C29_OverwriteKeepsOthers == [][C29_step]_vars

\* C30: once the outer signal is aborted, retryWithBackoff never remains in a
\* backoff wait: an attempt that was in flight at the abort and then fails with
\* a retryable, non-abort error rejects the call without waiting out a delay.
C30_NoBackoffAfterAbort == signalAborted => pc # "backoff"

====
